---- MODULE Spec2Model ----
(***************************************************************************)
(* Model of the index federation of the PDF retrieval service:             *)
(* src/src/corpus.py (CorpusManager), with the parts of src/src/indexer.py,*)
(* src/src/chunker.py, src/src/utils.py, src/src/rerank.py and             *)
(* src/src/qa.py it calls.                                                 *)
(*                                                                         *)
(* Spec      one CorpusManager used by one caller at a time; every handler *)
(*           is one action.  The process may be restarted (a new           *)
(*           CorpusManager is constructed over the same data directory).   *)
(* SpecConc  two threads call one mutating handler each on the same        *)
(*           CorpusManager; a step is one access to the fields or the disk.*)
(* SpecCrash one caller, the same steps; the process may end after any     *)
(*           step and be started again over what is on the disk.           *)
(* SpecAsk   two threads call ask once each; nothing else runs.            *)
(* SpecQuery one ChunkIndex, the reranker and the aggregate query on their *)
(*           own; what the external models compute is an input.            *)
(* SpecUtils compute_id and sliding_window_chunks on their own.            *)
(***************************************************************************)
EXTENDS Integers, Sequences, FiniteSets, TLC

VARIABLES
    file_map,    \* CorpusManager._file_map : filename -> [uid, pdf_path]
    indices,     \* CorpusManager._indices  : uid -> ChunkIndex
    pdfs,        \* files of PDF_DIR        : filename -> document
    snap,        \* directories of IDS_DIR  : uid -> [files, meta]
    meta_file,   \* content of META_PATH (NoFile when it does not exist)
    now,         \* wall clock read by _generate_uid_for_file
    gone,        \* history: filenames deleted and not added again since
    lastOp,      \* history: the last handler that ran, its inputs and result
    tmp_file,    \* content of META_PATH + ".tmp" (NoFile when it does not exist)
    thr,         \* per thread: the handler it runs, its position and locals
    pre,         \* history: fields and disk when the concurrent calls began
    BM25Okapi,   \* indexer.py, lines 7-10: TRUE when rank_bm25 was imported
    ci,          \* a ChunkIndex object used on its own
    call,        \* history: the last call on ci or on the reranker
    generator,   \* CorpusManager._generator : the SimpleGenerator
    window       \* a call of sliding_window_chunks: its arguments and locals

vars == <<file_map, indices, pdfs, snap, meta_file, now, gone, lastOp,
          tmp_file, thr, pre, BM25Okapi, ci, call, generator, window>>

(***************************************************************************)
(* Bounds of the model.                                                    *)
(***************************************************************************)
MaxUid == 2      \* uids generated in one behaviour (ingested files)
MaxBatch == 2    \* files handed to one add_pdfs / add_from_url call
MaxTopK == 2     \* largest top_k asked for
MaxRmFail == 1   \* removals the file system refuses during one call
MaxStepBatch == 1 \* files handed to one call in SpecConc and SpecCrash

(***************************************************************************)
(* Inputs.                                                                 *)
(***************************************************************************)
Filenames == {"a.pdf", "b.pdf"}
NotPdf == "c.txt"                 \* a path add_pdfs skips
Docs == {"d1"}                    \* the documents that are uploaded
NoFile == [exists |-> FALSE, complete |-> FALSE, data |-> <<>>]
SnapFiles == {"embeddings.npy", "meta.pkl", "model_name.txt"}
EmptyMap == <<>>

Min(a, b) == IF a <= b THEN a ELSE b
Max(a, b) == IF a >= b THEN a ELSE b

\* the Python slice s[:n]
Slice(s, n) ==
    IF n >= 0 THEN SubSeq(s, 1, Min(n, Len(s)))
    ELSE SubSeq(s, 1, Max(0, Len(s) + n))

Put(m, k, v) == [x \in DOMAIN m \cup {k} |-> IF x = k THEN v ELSE m[x]]
Drop(m, k) == [x \in DOMAIN m \ {k} |-> m[x]]

(***************************************************************************)
(* utils.py                                                                *)
(***************************************************************************)
RECURSIVE Concat(_)
Concat(parts) ==
    IF parts = <<>> THEN "" ELSE Head(parts) \o Concat(Tail(parts))

\* The hash is taken as injective on the string it is fed (no collisions):
\* the id is the concatenation of the parts, as m.update(p) builds it.
compute_id(parts) == Concat(parts)

RECURSIVE Join(_)
Join(strs) ==
    IF Len(strs) = 0 THEN ""
    ELSE IF Len(strs) = 1 THEN strs[1]
    ELSE strs[1] \o " " \o Join(Tail(strs))

\* s[:n] of Python
Prefix(s, n) ==
    IF n >= 0 THEN SubSeq(s, 1, Min(n, Len(s)))
    ELSE SubSeq(s, 1, Max(0, Len(s) + n))

\* variant: the inner loop counts no separator for a sentence
RECURSIVE FillNoSeparator(_, _, _, _)
FillNoSeparator(sentences, i, total, max_chars) ==
    IF i <= Len(sentences) /\ total + Len(sentences[i]) <= max_chars
    THEN FillNoSeparator(sentences, i + 1, total + Len(sentences[i]), max_chars)
    ELSE i

\* the inner while loop: the first sentence that no longer fits
RECURSIVE Fill(_, _, _, _)
Fill(sentences, i, total, max_chars) ==
    IF i <= Len(sentences) /\ total + Len(sentences[i]) + 1 <= max_chars
    THEN Fill(sentences, i + 1, total + Len(sentences[i]) + 1, max_chars)
    ELSE i

\* the outer while loop from window start `start` (1-based)
RECURSIVE Windows(_, _, _, _)
Windows(sentences, start, max_chars, overlap_sentences) ==
    IF start > Len(sentences) THEN <<>>
    ELSE LET i0 == Fill(sentences, start, 0, max_chars)
             current == IF i0 = start
                        THEN <<Prefix(sentences[start], max_chars)>>
                        ELSE SubSeq(sentences, start, i0 - 1)
             i == IF i0 = start THEN start + 1 ELSE i0
         IN  <<Join(current)>> \o
             (IF i > Len(sentences) THEN <<>>
              ELSE Windows(sentences, Max(i - overlap_sentences, start + 1),
                           max_chars, overlap_sentences))

sliding_window_chunks(sentences, max_chars, overlap_sentences) ==
    Windows(sentences, 1, max_chars, overlap_sentences)

(***************************************************************************)
(* parser.py: the items parse_pdf returns for each document (the PDF       *)
(* library is external; a document is what it extracts from it).           *)
(***************************************************************************)
Pages(doc) ==
    CASE doc = "d1" ->
           << [type |-> "text", page |-> 1, content |-> "Ab. Cd.",
               sentences |-> <<"Ab.", "Cd.">>],
              [type |-> "table", page |-> 1, content |-> "t1",
               sentences |-> <<"t1">>],
              [type |-> "table", page |-> 1, content |-> "t1",
               sentences |-> <<"t1">>] >>
      [] OTHER -> <<>>

parse_pdf(doc, paper_id) ==
    [i \in 1..Len(Pages(doc)) |->
        [type |-> Pages(doc)[i].type, paper_id |-> paper_id,
         page |-> Pages(doc)[i].page, content |-> Pages(doc)[i].content,
         sentences |-> Pages(doc)[i].sentences]]

(***************************************************************************)
(* chunker.py                                                              *)
(***************************************************************************)
DefaultMaxChars == 1200
DefaultOverlap == 1

ChunkOf(item, content) ==
    [type |-> item.type, paper_id |-> item.paper_id, page |-> item.page,
     content |-> content]

RECURSIVE ChunkOutput(_, _, _)
ChunkOutput(parsed_pages, max_chars, overlap_sentences) ==
    IF parsed_pages = <<>> THEN <<>>
    ELSE LET page_item == Head(parsed_pages)
             here == IF page_item.type = "text"
                     THEN LET w == sliding_window_chunks(page_item.sentences,
                                       max_chars, overlap_sentences)
                          IN  [k \in 1..Len(w) |-> ChunkOf(page_item, w[k])]
                     ELSE <<ChunkOf(page_item, page_item.content)>>
         IN  here \o ChunkOutput(Tail(parsed_pages), max_chars, overlap_sentences)

RECURSIVE Dedup(_, _)
Dedup(output, seen) ==
    IF output = <<>> THEN <<>>
    ELSE LET ch == Head(output)
             key == <<ch.paper_id, ch.page, ch.type, ch.content>>
         IN  IF key \in seen THEN Dedup(Tail(output), seen)
             ELSE <<ch>> \o Dedup(Tail(output), seen \cup {key})

build_chunks(parsed_pages, max_chars, overlap_sentences) ==
    Dedup(ChunkOutput(parsed_pages, max_chars, overlap_sentences), {})

(***************************************************************************)
(* indexer.py: a ChunkIndex is its ordered passage records (meta).  The    *)
(* embedding matrix and the sparse index follow the same order; their      *)
(* numbers come from the external models and are inputs where used.        *)
(***************************************************************************)
ChunkId(ch) ==
    compute_id(<<ch.paper_id, ToString(ch.page), ch.type, ch.content>>)

\* ChunkIndex.build: the meta list of the built index
IndexBuild(chunks) ==
    [meta |-> [i \in 1..Len(chunks) |->
                 [type |-> chunks[i].type, paper_id |-> chunks[i].paper_id,
                  page |-> chunks[i].page, content |-> chunks[i].content,
                  id |-> ChunkId(chunks[i])]]]

\* ChunkIndex.save: the three files of a snapshot directory
IndexSave(index) == [files |-> SnapFiles, meta |-> index.meta]

\* ChunkIndex.load raises unless every file of the snapshot can be read
LoadRaises(uid, snp) == uid \notin DOMAIN snp \/ snp[uid].files /= SnapFiles
IndexLoad(uid, snp) == [meta |-> snp[uid].meta]

(***************************************************************************)
(* indexer.py, the ChunkIndex object in full: model_name, the fitted       *)
(* NearestNeighbors (index), the embedding matrix, the passage records     *)
(* (meta) and the BM25 index.  An attribute that is None in the code is    *)
(* None here; Some(v) is an attribute set to v.                            *)
(***************************************************************************)
None == [none |-> TRUE, val |-> <<>>]
Some(v) == [none |-> FALSE, val |-> v]

DefaultModelName == "sentence-transformers/all-MiniLM-L6-v2"
DefaultNNeighbors == 8      \* build(chunks, n_neighbors=8)
LoadNNeighbors == 8         \* load: NearestNeighbors(n_neighbors=8, ...)

\* ChunkIndex.__init__
ChunkIndex(model_name) ==
    [model_name |-> model_name, index |-> None, embeddings |-> None,
     meta |-> <<>>, bm25 |-> None, bm25_corpus |-> <<>>]

\* the row the embedding model `model_name` gives for `text`, as float32:
\* the model is an external function of its name and the text
Encode(model_name, text) ==
    [model |-> model_name, text |-> text, dtype |-> "float32"]

\* str.lower on the letters of the model's texts
LowerChar(c) ==
    CASE c = "A" -> "a" [] c = "B" -> "b" [] c = "C" -> "c" [] c = "D" -> "d"
      [] c = "T" -> "t" [] OTHER -> c

RECURSIVE Lower(_)
Lower(s) ==
    IF s = "" THEN ""
    ELSE LowerChar(SubSeq(s, 1, 1)) \o Lower(SubSeq(s, 2, Len(s)))

Whitespace == {" ", "\t", "\n", "\r"}

\* str.split(): the runs of characters that are not whitespace;
\* word is the run being read
RECURSIVE SplitFrom(_, _)
SplitFrom(s, word) ==
    IF s = "" THEN (IF word = "" THEN <<>> ELSE <<word>>)
    ELSE LET c == SubSeq(s, 1, 1)
             rest == SubSeq(s, 2, Len(s))
         IN  IF c \in Whitespace
             THEN (IF word = "" THEN <<>> ELSE <<word>>) \o SplitFrom(rest, "")
             ELSE SplitFrom(rest, word \o c)

Split(s) == SplitFrom(s, "")

\* str.strip(): whitespace removed at both ends
RECURSIVE LStrip(_)
LStrip(s) ==
    IF s /= "" /\ SubSeq(s, 1, 1) \in Whitespace
    THEN LStrip(SubSeq(s, 2, Len(s))) ELSE s

RECURSIVE RStrip(_)
RStrip(s) ==
    IF s /= "" /\ SubSeq(s, Len(s), Len(s)) \in Whitespace
    THEN RStrip(SubSeq(s, 1, Len(s) - 1)) ELSE s

Strip(s) == LStrip(RStrip(s))

\* [t.lower().split() for t in texts]
Bm25Corpus(texts) == [i \in 1..Len(texts) |-> Split(Lower(texts[i]))]

\* ChunkIndex.build; bm25_available: the import of BM25Okapi succeeded
build(self, chunks, n_neighbors, bm25_available) ==
    LET texts == [i \in 1..Len(chunks) |-> chunks[i].content]
        embs == [i \in 1..Len(texts) |-> Encode(self.model_name, texts[i])]
    IN  [self EXCEPT
           !.embeddings = Some(embs),
           !.meta = IndexBuild(chunks).meta,
           !.index = Some([n_neighbors |-> n_neighbors, fit |-> embs]),
           !.bm25 = IF bm25_available THEN Some(Bm25Corpus(texts)) ELSE None,
           !.bm25_corpus = IF bm25_available THEN Bm25Corpus(texts) ELSE <<>>]

\* ChunkIndex.save: the three files of out_dir
save(self) ==
    [embeddings |-> self.embeddings, meta |-> self.meta, model_name |-> self.model_name]

\* np.load raises on the file np.save wrote for None (an object array)
load_raises(in_dir) == in_dir.embeddings.none

\* ChunkIndex.load of a directory that save wrote
load(in_dir, bm25_available) ==
    LET model_name == Strip(in_dir.model_name)
        texts == [i \in 1..Len(in_dir.meta) |-> in_dir.meta[i].content]
    IN  [ChunkIndex(model_name) EXCEPT
           !.meta = in_dir.meta,
           !.embeddings = in_dir.embeddings,
           !.index = Some([n_neighbors |-> LoadNNeighbors,
                           fit |-> in_dir.embeddings.val]),
           !.bm25 = IF bm25_available THEN Some(Bm25Corpus(texts)) ELSE None,
           !.bm25_corpus = IF bm25_available THEN Bm25Corpus(texts) ELSE <<>>]

(***************************************************************************)
(* Scores.  The similarities, BM25 scores and fused scores of the code are *)
(* floats; here they are exact fractions num/den with den > 0, so that     *)
(* equal scores are equal and the fusion arithmetic is the one written in  *)
(* the code.                                                               *)
(***************************************************************************)
R(n, d) == [num |-> n, den |-> d]
Zero == R(0, 1)
One == R(1, 1)
RAdd(a, b) == R(a.num * b.den + b.num * a.den, a.den * b.den)
RSub(a, b) == R(a.num * b.den - b.num * a.den, a.den * b.den)
RMul(a, b) == R(a.num * b.num, a.den * b.den)
RDiv(a, b) == R(a.num * b.den, a.den * b.num)          \* b > 0
RLt(a, b) == a.num * b.den < b.num * a.den
RLe(a, b) == a.num * b.den <= b.num * a.den
REq(a, b) == a.num * b.den = b.num * a.den

DefaultAlpha == R(3, 5)       \* retrieve(..., alpha=0.6)

\* a dict as the list of its <<key, value>> items in insertion order
DictHas(d, k) == \E j \in 1..Len(d) : d[j][1] = k
DictGet(d, k, default) ==
    IF DictHas(d, k) THEN d[CHOOSE j \in 1..Len(d) : d[j][1] = k][2]
    ELSE default
DictSet(d, k, v) ==
    IF DictHas(d, k)
    THEN [j \in 1..Len(d) |-> IF d[j][1] = k THEN <<k, v>> ELSE d[j]]
    ELSE Append(d, <<k, v>>)

\* ChunkIndex.query_dense.  nn is what kneighbors finds for the query over
\* all fitted rows: <<row, similarity>> by falling similarity (rows are
\* numbered from 1 here)
query_dense(self, nn, top_k) ==
    IF self.index.none \/ self.embeddings.none
    THEN [raised |-> TRUE, out |-> <<>>]
    ELSE [raised |-> FALSE, out |-> SubSeq(nn, 1, Min(top_k, Len(self.meta)))]

\* ChunkIndex.query_bm25.  bm is np.argsort(scores)[::-1] with the scores:
\* <<row, score>> for every row of the corpus, by falling score
query_bm25(self, bm, top_k) ==
    IF self.bm25.none THEN [raised |-> FALSE, out |-> <<>>]
    ELSE [raised |-> FALSE, out |-> SubSeq(bm, 1, Min(top_k, Len(bm)))]

\* bm_vals.max()
RECURSIVE MaxScore(_)
MaxScore(list) ==
    IF Len(list) = 1 THEN list[1][2]
    ELSE LET m == MaxScore(Tail(list))
         IN  IF RLt(m, list[1][2]) THEN list[1][2] ELSE m

\* lines 75-78: the dict bm_norm
BmNorm(bm25) ==
    LET bm_max == MaxScore(bm25)
    IN  [j \in 1..Len(bm25) |->
           <<bm25[j][1], IF RLt(Zero, bm_max) THEN RDiv(bm25[j][2], bm_max)
                         ELSE Zero>>]

\* the loops of lines 79-82: scores[i] = scores.get(i, 0.0) + weight * s
RECURSIVE Accumulate(_, _, _)
Accumulate(scores, items, weight) ==
    IF items = <<>> THEN scores
    ELSE LET i == items[1][1]
             s == items[1][2]
         IN  Accumulate(DictSet(scores, i,
                                RAdd(DictGet(scores, i, Zero), RMul(weight, s))),
                        Tail(items), weight)

\* sorted(..., key=lambda x: x[1], reverse=True) is stable: an item goes
\* behind every item whose score is not smaller
InsertByScore(sorted, x) ==
    LET before == {j \in 1..Len(sorted) : RLt(sorted[j][2], x[2])}
        at == IF before = {} THEN Len(sorted) + 1
              ELSE CHOOSE j \in before : \A h \in before : j <= h
    IN  SubSeq(sorted, 1, at - 1) \o <<x>> \o SubSeq(sorted, at, Len(sorted))

RECURSIVE SortByScore(_, _)
SortByScore(sorted, items) ==
    IF items = <<>> THEN sorted
    ELSE SortByScore(InsertByScore(sorted, Head(items)), Tail(items))

\* variant: the sparse scores are fused as they are, without the division
\* by their maximum
RetrieveUnnormalised(self, nn, bm, top_k, alpha) ==
    LET dense == query_dense(self, nn, top_k)
        bm25 == query_bm25(self, bm, top_k).out
        scores == Accumulate(Accumulate(<<>>, dense.out, alpha),
                             bm25, RSub(One, alpha))
        combined == SortByScore(<<>>, scores)
    IN  IF dense.raised THEN dense
        ELSE IF bm25 = <<>>
        THEN [raised |-> FALSE, out |-> Slice(dense.out, top_k)]
        ELSE [raised |-> FALSE, out |-> Slice(combined, top_k)]

\* variant: the weight handed in is ignored, the default is used
RetrieveFixedAlpha(self, nn, bm, top_k, alpha) ==
    LET dense == query_dense(self, nn, top_k)
        bm25 == query_bm25(self, bm, top_k).out
        scores == Accumulate(Accumulate(<<>>, dense.out, DefaultAlpha),
                             BmNorm(bm25), RSub(One, DefaultAlpha))
        combined == SortByScore(<<>>, scores)
    IN  IF dense.raised THEN dense
        ELSE IF bm25 = <<>>
        THEN [raised |-> FALSE, out |-> Slice(dense.out, top_k)]
        ELSE [raised |-> FALSE, out |-> Slice(combined, top_k)]

\* ChunkIndex.retrieve
retrieve(self, nn, bm, top_k, alpha) ==
    LET dense == query_dense(self, nn, top_k)
        bm25 == query_bm25(self, bm, top_k).out
        scores == Accumulate(Accumulate(<<>>, dense.out, alpha),
                             BmNorm(bm25), RSub(One, alpha))
        combined == SortByScore(<<>>, scores)
    IN  IF dense.raised THEN dense
        ELSE IF bm25 = <<>>
        THEN [raised |-> FALSE, out |-> Slice(dense.out, top_k)]
        ELSE [raised |-> FALSE, out |-> Slice(combined, top_k)]

\* ChunkIndex.query
query(self, nn, bm, top_k) == retrieve(self, nn, bm, top_k, DefaultAlpha)

(***************************************************************************)
(* qa.py: the SimpleGenerator is its style; the tokenizer and the model    *)
(* are external.                                                           *)
(***************************************************************************)
DefaultStyle == "concise"

SimpleGenerator(style) == [style |-> style]

set_style(self, style) == [self EXCEPT !.style = style]

\* _style_prefix: the instruction the prompt of answer begins with
StylePrefix(self) ==
    CASE self.style = "detailed" ->
           "Write a thorough technical answer with inline citations like [C1], [C2]."
      [] self.style = "bullet" ->
           "Answer in concise bullet points with inline citations like [C1]."
      [] self.style = "citation" ->
           "Answer concisely and include [CITATION] tags referencing chunk ids."
      [] OTHER -> "Answer briefly and precisely with citations."

(***************************************************************************)
(* corpus.py: the registry file.  A file holds JSON text; json.load raises *)
(* on text that is not one complete JSON document.                         *)
(***************************************************************************)
json_dump(data) == [exists |-> TRUE, complete |-> TRUE, data |-> data]
JsonLoadRaises(file) == ~file.complete
json_load(file) == file.data

\* _load_metadata: the registry the constructor starts from
LoadMetadata(file) ==
    IF ~file.exists THEN EmptyMap
    ELSE IF JsonLoadRaises(file) THEN EmptyMap
    ELSE json_load(file)

\* _save_metadata, run to completion: the content of META_PATH afterwards
SaveMetadata(fm) == json_dump(fm)

\* os.stat of a stored document (copy2 keeps the modification time)
Stat(doc) ==
    CASE doc = "d1" -> [st_size |-> 2, st_mtime |-> 5]
      [] OTHER -> [st_size |-> 0, st_mtime |-> 0]

\* _generate_uid_for_file; clock is the reading of time.time()
GenerateUid(pdf_path, doc, clock) ==
    LET st == Stat(doc)
        base == pdf_path
    IN  compute_id(<<base, ToString(st.st_size), ToString(st.st_mtime),
                     ToString(clock)>>)

IndexDirForUid(uid) == uid

(***************************************************************************)
(* The handlers work on a record st of the manager's fields and the disk:  *)
(* file_map, indices, pdfs, snap, now, plus what the call did so far:      *)
(* loaded / built / saved (uids whose snapshot load was attempted, whose   *)
(* build ran, whose snapshot was written), added (add_pdfs' items), ret    *)
(* (the index a build returns), raised (an exception left the call).       *)
(***************************************************************************)
Start(fm, ix, pd, sn, clock) ==
    [file_map |-> fm, indices |-> ix, pdfs |-> pd, snap |-> sn, now |-> clock,
     loaded |-> {}, built |-> {}, saved |-> {}, added |-> <<>>,
     ret |-> [meta |-> <<>>], raised |-> FALSE]

\* broken: the files for which parse_pdf, the embedding model or the fit
\* of the index raises during this call (external libraries)
BuildIndexForPdf(st, pdf_path, uid, broken) ==
    IF pdf_path \notin DOMAIN st.pdfs \/ pdf_path \in broken
    THEN [st EXCEPT !.built = @ \cup {uid}, !.raised = TRUE]
    ELSE LET title == pdf_path
             parsed == parse_pdf(st.pdfs[pdf_path], title)
             chunks == build_chunks(parsed, DefaultMaxChars, DefaultOverlap)
             saved(index) ==
                 [st EXCEPT !.built = @ \cup {uid},
                            !.snap = Put(@, IndexDirForUid(uid), IndexSave(index)),
                            !.saved = @ \cup {uid},
                            !.ret = index]
         IN  saved(IndexBuild(chunks))

\* variant: the snapshot is never tried, every uid not in memory is built
EnsureAlwaysBuilds(st, uid, pdf_path, broken) ==
    IF uid \in DOMAIN st.indices THEN st
    ELSE LET kept(b) == IF b.raised THEN b
                        ELSE [b EXCEPT !.indices = Put(@, uid, b.ret)]
         IN  kept(BuildIndexForPdf(st, pdf_path, uid, broken))

\* variant: without the except branch, a failed load leaves the call
EnsureLoadErrorPropagates(st, uid, pdf_path, broken) ==
    IF uid \in DOMAIN st.indices THEN st
    ELSE LET tried == [st EXCEPT !.loaded = @ \cup {uid}]
         IN  IF ~LoadRaises(IndexDirForUid(uid), st.snap)
             THEN [tried EXCEPT !.indices = Put(@, uid, IndexLoad(IndexDirForUid(uid), st.snap))]
             ELSE [tried EXCEPT !.raised = TRUE]

EnsureIndexForUid(st, uid, pdf_path, broken) ==
    IF uid \in DOMAIN st.indices THEN st
    ELSE LET tried == [st EXCEPT !.loaded = @ \cup {uid}]
         IN  IF ~LoadRaises(IndexDirForUid(uid), st.snap)
             THEN [tried EXCEPT !.indices = Put(@, uid, IndexLoad(IndexDirForUid(uid), st.snap))]
             ELSE LET kept(b) == IF b.raised THEN b
                                 ELSE [b EXCEPT !.indices = Put(@, uid, b.ret)]
                  IN  kept(BuildIndexForPdf(tried, pdf_path, uid, broken))

\* the loop of add_pdfs (lines 121-133); an item is [filename, doc]
RECURSIVE AddLoop(_, _, _)
AddLoop(st, items, broken) ==
    IF items = <<>> \/ st.raised THEN st
    ELSE LET src == Head(items)
         IN  IF src.filename = NotPdf THEN AddLoop(st, Tail(items), broken)
             ELSE LET filename == src.filename
                      dst == filename
                      copied == [st EXCEPT !.pdfs = Put(@, dst, src.doc)]
                      uid == GenerateUid(dst, src.doc, copied.now)
                      reg == [copied EXCEPT
                                !.now = @ + 1,
                                !.file_map = Put(@, filename,
                                                [uid |-> uid, pdf_path |-> dst])]
                      nxt(ens) ==
                          IF ens.raised THEN ens
                          ELSE [ens EXCEPT !.added =
                                  Append(@, [filename |-> filename, uid |-> uid])]
                  IN  AddLoop(nxt(EnsureIndexForUid(reg, uid, dst, broken)),
                              Tail(items), broken)

\* variant: startup tries the snapshot and builds nothing
RECURSIVE LoadLoopLoadOnly(_, _, _)
LoadLoopLoadOnly(st, todo, broken) ==
    IF todo = {} THEN st
    ELSE LET filename == CHOOSE f \in todo : TRUE
             meta == st.file_map[filename]
             uid == meta.uid
             nxt == IF meta.pdf_path \notin DOMAIN st.pdfs
                    THEN [st EXCEPT !.file_map = Drop(@, filename)]
                    ELSE IF uid \in DOMAIN st.indices THEN st
                    ELSE IF LoadRaises(IndexDirForUid(uid), st.snap)
                    THEN [st EXCEPT !.loaded = @ \cup {uid}]
                    ELSE [st EXCEPT !.loaded = @ \cup {uid},
                                    !.indices = Put(@, uid, IndexLoad(IndexDirForUid(uid), st.snap))]
         IN  LoadLoopLoadOnly(nxt, todo \ {filename}, broken)

\* variant: startup keeps the entries whose source file is gone
RECURSIVE LoadLoopKeepsMissing(_, _, _)
LoadLoopKeepsMissing(st, todo, broken) ==
    IF todo = {} THEN st
    ELSE LET filename == CHOOSE f \in todo : TRUE
             meta == st.file_map[filename]
             nxt == [EnsureIndexForUid(st, meta.uid, meta.pdf_path, broken)
                       EXCEPT !.raised = FALSE]
         IN  LoadLoopKeepsMissing(nxt, todo \ {filename}, broken)

\* the loop of _load_existing_indices over the entries `todo`
RECURSIVE LoadLoop(_, _, _)
LoadLoop(st, todo, broken) ==
    IF todo = {} THEN st
    ELSE LET filename == CHOOSE f \in todo : TRUE
             meta == st.file_map[filename]
             nxt == IF meta.pdf_path \notin DOMAIN st.pdfs
                    THEN [st EXCEPT !.file_map = Drop(@, filename)]
                    ELSE [EnsureIndexForUid(st, meta.uid, meta.pdf_path, broken)
                            EXCEPT !.raised = FALSE]
         IN  LoadLoop(nxt, todo \ {filename}, broken)

LoadExistingIndices(st, broken) == LoadLoop(st, DOMAIN st.file_map, broken)

\* the loop of add_from_url (lines 140-145) over the downloaded items
RECURSIVE UrlLoop(_, _, _)
UrlLoop(st, items, broken) ==
    IF items = <<>> \/ st.raised THEN st
    ELSE LET filename == Head(items).filename
             uid == GenerateUid(filename, st.pdfs[filename], st.now)
             reg == [st EXCEPT
                       !.now = @ + 1,
                       !.file_map = Put(@, filename,
                                       [uid |-> uid, pdf_path |-> filename])]
             nxt(ens) ==
                 IF ens.raised THEN ens
                 ELSE [ens EXCEPT !.added =
                         Append(@, [filename |-> filename, uid |-> uid])]
         IN  UrlLoop(nxt(EnsureIndexForUid(reg, uid, filename, broken)),
                     Tail(items), broken)

\* download_from_url: every item's file is written before the loop starts
RECURSIVE Download(_, _)
Download(pd, items) ==
    IF items = <<>> THEN pd
    ELSE Download(Put(pd, Head(items).filename, Head(items).doc), Tail(items))

(***************************************************************************)
(* add_pdfs and add_from_url: the manager's fields and the disk afterwards.*)
(* `saved_meta` tells whether _save_metadata was reached.                  *)
(***************************************************************************)
AddPdfsOp(st, file_paths, broken) ==
    LET result(r) == [st |-> r, saved_meta |-> ~r.raised]
    IN  result(AddLoop(st, file_paths, broken))

AddFromUrlOp(st, items, broken) ==
    LET result(r) == [st |-> r, saved_meta |-> ~r.raised]
    IN  result(UrlLoop([st EXCEPT !.pdfs = Download(@, items)], items, broken))

(***************************************************************************)
(* delete_pdf.  `failing` names the removals the file system refuses:      *)
(* "pdf" (the source file), a snapshot file, "dir" (the rmdir).            *)
(***************************************************************************)
\* variant: a refused snapshot removal ends the call like a refused removal
\* of the source file does
DeletePdfAbortsOnSnapshot(st, filename, failing) ==
    IF filename \notin DOMAIN st.file_map
    THEN [st |-> st, deleted |-> FALSE, saved_meta |-> FALSE,
          registered |-> FALSE, uid |-> "", rm_failed |-> {}]
    ELSE
    LET meta == st.file_map[filename]
        uid == meta.uid
        pdf_path == meta.pdf_path
        idx_dir == IndexDirForUid(uid)
        files == IF idx_dir \in DOMAIN st.snap THEN st.snap[idx_dir].files ELSE {}
    IN  IF pdf_path \in DOMAIN st.pdfs /\ "pdf" \in failing
        THEN [st |-> st, deleted |-> FALSE, saved_meta |-> FALSE,
              registered |-> TRUE, uid |-> uid, rm_failed |-> {"pdf"}]
        ELSE IF idx_dir \in DOMAIN st.snap /\ failing \cap (files \cup {"dir"}) /= {}
        THEN [st |-> [st EXCEPT !.pdfs = Drop(@, pdf_path),
                                !.indices = Drop(@, uid)],
              deleted |-> FALSE, saved_meta |-> FALSE,
              registered |-> TRUE, uid |-> uid,
              rm_failed |-> failing \cap (files \cup {"dir"})]
        ELSE [st |-> [st EXCEPT !.pdfs = Drop(@, pdf_path),
                                !.indices = Drop(@, uid),
                                !.snap = Drop(@, idx_dir),
                                !.file_map = Drop(@, filename)],
              deleted |-> TRUE, saved_meta |-> TRUE,
              registered |-> TRUE, uid |-> uid, rm_failed |-> {}]

\* variant: an unregistered filename still has its file in PDF_DIR removed
DeletePdfRemovesUnregistered(st, filename, failing) ==
    IF filename \notin DOMAIN st.file_map
    THEN [st |-> [st EXCEPT !.pdfs = Drop(@, filename)],
          deleted |-> FALSE, saved_meta |-> FALSE,
          registered |-> FALSE, uid |-> "", rm_failed |-> {}]
    ELSE
    LET meta == st.file_map[filename]
        uid == meta.uid
        pdf_path == meta.pdf_path
        idx_dir == IndexDirForUid(uid)
    IN  IF pdf_path \in DOMAIN st.pdfs /\ "pdf" \in failing
        THEN [st |-> st, deleted |-> FALSE, saved_meta |-> FALSE,
              registered |-> TRUE, uid |-> uid, rm_failed |-> {"pdf"}]
        ELSE
        LET files == IF idx_dir \in DOMAIN st.snap THEN st.snap[idx_dir].files ELSE {}
            kept == files \cap failing
            dir_stays == idx_dir \in DOMAIN st.snap /\ (kept /= {} \/ "dir" \in failing)
            snap2 == IF idx_dir \notin DOMAIN st.snap THEN st.snap
                     ELSE IF dir_stays
                     THEN [st.snap EXCEPT ![idx_dir].files = kept]
                     ELSE Drop(st.snap, idx_dir)
        IN  [st |-> [st EXCEPT !.pdfs = Drop(@, pdf_path),
                               !.indices = Drop(@, uid),
                               !.snap = snap2,
                               !.file_map = Drop(@, filename)],
             deleted |-> TRUE, saved_meta |-> TRUE,
             registered |-> TRUE, uid |-> uid,
             rm_failed |-> kept \cup (IF dir_stays THEN {"dir"} ELSE {})]

DeletePdfOp(st, filename, failing) ==
    IF filename \notin DOMAIN st.file_map
    THEN [st |-> st, deleted |-> FALSE, saved_meta |-> FALSE,
          registered |-> FALSE, uid |-> "", rm_failed |-> {}]
    ELSE
    LET meta == st.file_map[filename]
        uid == meta.uid
        pdf_path == meta.pdf_path
        idx_dir == IndexDirForUid(uid)
    IN  IF pdf_path \in DOMAIN st.pdfs /\ "pdf" \in failing
        THEN [st |-> st, deleted |-> FALSE, saved_meta |-> FALSE,
              registered |-> TRUE, uid |-> uid, rm_failed |-> {"pdf"}]
        ELSE
        LET files == IF idx_dir \in DOMAIN st.snap THEN st.snap[idx_dir].files ELSE {}
            kept == files \cap failing
            dir_stays == idx_dir \in DOMAIN st.snap /\ (kept /= {} \/ "dir" \in failing)
            snap2 == IF idx_dir \notin DOMAIN st.snap THEN st.snap
                     ELSE IF dir_stays
                     THEN [st.snap EXCEPT ![idx_dir].files = kept]
                     ELSE Drop(st.snap, idx_dir)
        IN  [st |-> [st EXCEPT !.pdfs = Drop(@, pdf_path),
                               !.indices = Drop(@, uid),
                               !.snap = snap2,
                               !.file_map = Drop(@, filename)],
             deleted |-> TRUE, saved_meta |-> TRUE,
             registered |-> TRUE, uid |-> uid,
             rm_failed |-> kept \cup (IF dir_stays THEN {"dir"} ELSE {})]

(***************************************************************************)
(* reset_indexes_and_metadata.  `failing` holds <<uid, file>> for a        *)
(* snapshot file and <<uid, "dir">> for a directory that cannot be removed.*)
(***************************************************************************)
\* variant: reset forgets the registry and leaves the loaded indices
ResetKeepsIndices(st, failing) ==
    LET keptOf(u) == {f \in st.snap[u].files : <<u, f>> \in failing}
        stays(u) == keptOf(u) /= {} \/ <<u, "dir">> \in failing
        left == {u \in DOMAIN st.snap : stays(u)}
    IN  [st |-> [st EXCEPT
                   !.file_map = EmptyMap,
                   !.snap = [u \in left |-> [st.snap[u] EXCEPT !.files = keptOf(u)]]],
         saved_meta |-> TRUE]

ResetOp(st, failing) ==
    LET keptOf(u) == {f \in st.snap[u].files : <<u, f>> \in failing}
        stays(u) == keptOf(u) /= {} \/ <<u, "dir">> \in failing
        left == {u \in DOMAIN st.snap : stays(u)}
    IN  [st |-> [st EXCEPT
                   !.indices = EmptyMap,
                   !.file_map = EmptyMap,
                   !.snap = [u \in left |-> [st.snap[u] EXCEPT !.files = keptOf(u)]]],
         saved_meta |-> TRUE]

(***************************************************************************)
(* Queries.  The scores come from the external embedding, BM25 and         *)
(* cross-encoder models, so a query's result is any outcome some scores    *)
(* produce: retrieve returns min(k, rows) distinct rows of its index, and  *)
(* the reranker orders the pool by its own scores.                         *)
(***************************************************************************)
Ceil(a, b) == -((-a) \div b)          \* math.ceil(a / b), b > 0

PerFileK(top_k, n_indices) ==
    LET num_files == Max(1, n_indices)
    IN  Max(3, Ceil(top_k * 3, num_files))

\* ChunkIndex.query -> retrieve: the possible sets of returned rows
IndexQuery(index, top_k) ==
    {rows \in SUBSET (1..Len(index.meta)) :
        Cardinality(rows) = Min(top_k, Len(index.meta))}

RECURSIVE Arrangements(_, _)
Arrangements(S, n) ==
    IF n = 0 THEN {<<>>}
    ELSE UNION {{<<c>> \o r : r \in Arrangements(S \ {c}, n - 1)} : c \in S}

\* Reranker.rerank: the possible results for a pool of candidates
Rerank(candidates, top_k) ==
    IF candidates = {} THEN {<<>>}
    ELSE Arrangements(candidates, Min(top_k, Cardinality(candidates)))

\* _aggregate_query: the possible results; a candidate is <<uid, row>>.
\* `answering` are the indices whose query does not raise.
AggregateQuery(ix, top_k) ==
    LET per_file_k == PerFileK(top_k, Cardinality(DOMAIN ix))
        answers == UNION {IndexQuery(ix[uid], per_file_k) : uid \in DOMAIN ix}
        pools(answering) ==
            {nb \in [answering -> answers] :
                \A uid \in answering : nb[uid] \in IndexQuery(ix[uid], per_file_k)}
        cands(answering, nb) ==
            UNION {{<<uid, i>> : i \in nb[uid]} : uid \in answering}
        metas(r) == [k \in 1..Len(r) |-> ix[r[k][1]].meta[r[k][2]]]
    IN  UNION {UNION {{metas(r) : r \in Rerank(cands(answering, nb), top_k)}
                        : nb \in pools(answering)}
                 : answering \in SUBSET DOMAIN ix}

\* the sort key of rerank (line 17): (rerank_score, score)
KeyLt(a, b) ==
    \/ a.rerank_score < b.rerank_score
    \/ a.rerank_score = b.rerank_score /\ a.score < b.score

\* candidates.sort(key=..., reverse=True) is stable: a candidate goes
\* behind every candidate whose key is not smaller
InsertByKey(sorted, x) ==
    LET before == {j \in 1..Len(sorted) : KeyLt(sorted[j], x)}
        at == IF before = {} THEN Len(sorted) + 1
              ELSE CHOOSE j \in before : \A h \in before : j <= h
    IN  SubSeq(sorted, 1, at - 1) \o <<x>> \o SubSeq(sorted, at, Len(sorted))

RECURSIVE SortByKey(_, _)
SortByKey(sorted, items) ==
    IF items = <<>> THEN sorted
    ELSE SortByKey(InsertByKey(sorted, Head(items)), Tail(items))

\* lines 14-15: every candidate gets its rerank_score
Scored(candidates, scores) ==
    [i \in 1..Len(candidates) |->
       [id |-> candidates[i].id, content |-> candidates[i].content,
        score |-> candidates[i].score, rerank_score |-> scores[i]]]

\* variant: the scored candidates are cut to top_k without the sort
RerankUnsorted(candidates, scores, top_k) ==
    IF candidates = <<>> THEN <<>>
    ELSE Slice(Scored(candidates, scores), top_k)

\* Reranker.rerank; scores is what the cross-encoder predicts for the
\* pairs [query, content], one score per candidate
rerank(candidates, scores, top_k) ==
    IF candidates = <<>> THEN <<>>
    ELSE Slice(SortByKey(<<>>, Scored(candidates, scores)), top_k)

\* _aggregate_query, lines 103-109: the calls idx.query(query, top_k=k) it
\* makes, as <<uid, k>> in the order of the loop over _indices
RECURSIVE QueryLoop(_, _, _)
QueryLoop(asked, uids, per_file_k) ==
    IF uids = <<>> THEN asked
    ELSE QueryLoop(Append(asked, <<Head(uids), per_file_k>>), Tail(uids), per_file_k)

\* variant: the budget is rounded down
AggregateCallsFloor(uids, top_k) ==
    QueryLoop(<<>>, uids, Max(3, (top_k * 3) \div Max(1, Len(uids))))

AggregateCalls(uids, top_k) ==
    QueryLoop(<<>>, uids, PerFileK(top_k, Len(uids)))

\* ask: the chunk lists it may return
AskOp(ix, top_k) ==
    IF DOMAIN ix = {} THEN {<<>>} ELSE AggregateQuery(ix, top_k)

(***************************************************************************)
(* The specification: one caller, one handler at a time.                   *)
(***************************************************************************)
Cur == Start(file_map, indices, pdfs, snap, now)

Threads == {1, 2}

\* a thread that runs no handler
IdleThread ==
    [op |-> "none", at |-> "idle", items |-> <<>>, todo |-> <<>>,
     filename |-> "", uid |-> "", pdf_path |-> "", ret |-> [meta |-> <<>>], buf |-> EmptyMap, fd |-> "none",
     raised |-> FALSE, top_k |-> 0, style |-> "", fused |-> <<>>, prefix |-> ""]

NoPre == [file_map |-> EmptyMap, indices |-> EmptyMap, pdfs |-> EmptyMap,
          snap |-> EmptyMap, now |-> 0, meta_file |-> NoFile]

\* in Spec _save_metadata runs to its end and no second thread exists
\* sliding_window_chunks does not run; at is "while" before the test of its
\* outer loop and "return" at line 59
NoWindow ==
    [sentences |-> <<>>, max_chars |-> 0, overlap_sentences |-> 0,
     chunks |-> <<>>, start |-> 1, at |-> "idle"]

\* no call on a ChunkIndex of its own was made
NoCall == [fn |-> "none", args |-> <<>>, out |-> <<>>, raised |-> FALSE]

\* the specifications of the CorpusManager use no ChunkIndex of their own;
\* the manager constructs its generator with the default style (line 32)
NoQuery ==
    /\ BM25Okapi = TRUE
    /\ ci = ChunkIndex(DefaultModelName)
    /\ call = NoCall
    /\ generator = SimpleGenerator(DefaultStyle)
    /\ window = NoWindow

Atomic ==
    /\ tmp_file = NoFile
    /\ thr = [t \in Threads |-> IdleThread]
    /\ pre = NoPre
    /\ NoQuery

NoOp ==
    [op |-> "none", filename |-> "", uid |-> "", deleted |-> FALSE,
     raised |-> FALSE, buildable |-> TRUE, rm_failed |-> {},
     loaded |-> {}, built |-> {}, saved |-> {}]

PdfItems == {[filename |-> f, doc |-> d] : f \in Filenames, d \in Docs}
PathItems == PdfItems \cup {[filename |-> NotPdf, doc |-> "d1"]}
Batches(S) == UNION {[1..n -> S] : n \in 0..MaxBatch}

\* the files a batch names
Names(items) == {items[i].filename : i \in 1..Len(items)} \ {NotPdf}

\* no file of the batch is one whose build raises
Buildable(items, broken) == Names(items) \cap broken = {}

\* the removals delete_pdf(filename) attempts
DeleteTargets(filename) ==
    IF filename \notin DOMAIN file_map THEN {}
    ELSE LET meta == file_map[filename]
         IN  (IF meta.pdf_path \in DOMAIN pdfs THEN {"pdf"} ELSE {})
             \cup (IF IndexDirForUid(meta.uid) \in DOMAIN snap
                   THEN snap[IndexDirForUid(meta.uid)].files \cup {"dir"}
                   ELSE {})

\* the removals reset_indexes_and_metadata attempts under IDS_DIR
ResetTargets ==
    {t \in (DOMAIN snap) \X (SnapFiles \cup {"dir"}) :
        t[2] = "dir" \/ t[2] \in snap[t[1]].files}

\* the filenames whose registry entry the call wrote
Written(fm) == {f \in DOMAIN fm : f \notin DOMAIN file_map \/ fm[f] /= file_map[f]}

Commit(st, saved_meta) ==
    /\ file_map' = st.file_map
    /\ indices' = st.indices
    /\ pdfs' = st.pdfs
    /\ snap' = st.snap
    /\ now' = st.now
    /\ meta_file' = IF saved_meta THEN SaveMetadata(st.file_map) ELSE meta_file
    /\ UNCHANGED <<tmp_file, thr, pre, BM25Okapi, ci, call, generator, window>>

\* CorpusManager() over an empty data directory
Init ==
    /\ file_map = EmptyMap
    /\ indices = EmptyMap
    /\ pdfs = EmptyMap
    /\ snap = EmptyMap
    /\ meta_file = SaveMetadata(EmptyMap)
    /\ now = 0
    /\ gone = {}
    /\ lastOp = [NoOp EXCEPT !.op = "init"]
    /\ Atomic

\* the process ends and CorpusManager() is constructed again
Restart ==
    \E broken \in SUBSET DOMAIN LoadMetadata(meta_file) :
      \E st \in {LoadExistingIndices(
                      Start(LoadMetadata(meta_file), EmptyMap, pdfs, snap, now), broken)} :
            /\ Commit(st, TRUE)
            /\ gone' = gone
            /\ lastOp' = [NoOp EXCEPT !.op = "init",
                            !.loaded = st.loaded, !.built = st.built,
                            !.saved = st.saved]

AddPdfs ==
    \E file_paths \in Batches(PathItems) :
      \E broken \in SUBSET Names(file_paths) :
        /\ now + Len(file_paths) <= MaxUid
        /\ \E r \in {AddPdfsOp(Cur, file_paths, broken)} :
               /\ Commit(r.st, r.saved_meta)
               /\ gone' = gone \ Written(r.st.file_map)
               /\ lastOp' = [NoOp EXCEPT !.op = "add_pdfs",
                               !.buildable = Buildable(file_paths, broken),
                               !.raised = r.st.raised, !.loaded = r.st.loaded,
                               !.built = r.st.built, !.saved = r.st.saved]

AddFromUrl ==
    \E items \in Batches(PdfItems) :
      \E broken \in SUBSET Names(items) :
        /\ now + Len(items) <= MaxUid
        /\ \E r \in {AddFromUrlOp(Cur, items, broken)} :
               /\ Commit(r.st, r.saved_meta)
               /\ gone' = gone \ Written(r.st.file_map)
               /\ lastOp' = [NoOp EXCEPT !.op = "add_from_url",
                               !.buildable = Buildable(items, broken),
                               !.raised = r.st.raised, !.loaded = r.st.loaded,
                               !.built = r.st.built, !.saved = r.st.saved]

\* ask returns its chunks to the caller and leaves the registry, the index
\* map and the disk as they are; the lists it may return are
\* AskOp(indices, top_k).  With indices loaded it hands its style to the
\* generator (line 155); the caller of Spec passes the default style.
Ask ==
    \E top_k \in 1..MaxTopK :
        \E fused \in AskOp(indices, top_k) :
            /\ lastOp' = [NoOp EXCEPT !.op = "ask"]
            /\ generator' = IF DOMAIN indices = {} THEN generator
                            ELSE set_style(generator, DefaultStyle)
            /\ UNCHANGED <<file_map, indices, pdfs, snap, meta_file, now, gone>>
            /\ UNCHANGED <<tmp_file, thr, pre, BM25Okapi, ci, call, window>>

DeletePdf ==
    \E filename \in Filenames :
      \E failing \in SUBSET DeleteTargets(filename) :
        /\ Cardinality(failing) <= MaxRmFail
        /\ \E r \in {DeletePdfOp(Cur, filename, failing)} :
               /\ Commit(r.st, r.saved_meta)
               /\ gone' = IF r.deleted THEN gone \cup {filename} ELSE gone
               /\ lastOp' = [NoOp EXCEPT !.op = "delete_pdf", !.filename = filename,
                               !.uid = r.uid, !.deleted = r.deleted,
                               !.rm_failed = r.rm_failed]

ResetIndexesAndMetadata ==
    \E failing \in SUBSET ResetTargets :
        /\ Cardinality(failing) <= MaxRmFail
        /\ \E r \in {ResetOp(Cur, failing)} :
               /\ Commit(r.st, r.saved_meta)
               /\ gone' = gone
               /\ lastOp' = [NoOp EXCEPT !.op = "reset"]

Next ==
    \/ Restart
    \/ AddPdfs
    \/ AddFromUrl
    \/ Ask
    \/ DeletePdf
    \/ ResetIndexesAndMetadata

Spec == Init /\ [][Next]_vars

(***************************************************************************)
(* The handlers step by step.  A step is one statement (or one run of      *)
(* statements) that reads or writes the manager's fields or the disk.      *)
(* A thread's record holds the handler (op) and its arguments (items,      *)
(* filename), its position (at), and its locals: todo (the rest of the     *)
(* batch), uid, pdf_path, ret (the index built or loaded), buf (what       *)
(* json.dump wrote to the open file object), fd (where the file it has     *)
(* open is now: at "tmp", at "meta" after a rename, "orphan" once          *)
(* unlinked).                                                              *)
(***************************************************************************)
hist == <<gone, lastOp, BM25Okapi, ci, call, generator, window>>

\* a file just opened for writing, or cut short
Truncated == [exists |-> TRUE, complete |-> FALSE, data |-> <<>>]

NextAt(todo) == IF todo = <<>> THEN "save_open" ELSE "register"

\* the handler of thread record r returned (or raised)
Done(r, raised) ==
    [IdleThread EXCEPT !.op = r.op, !.at = "done", !.items = r.items,
                       !.filename = IF r.op = "delete_pdf" THEN r.filename ELSE "",
                       !.raised = raised]

PendingUids == Len(thr[1].todo) + Len(thr[2].todo)

StepBatches(S) == UNION {[1..n -> S] : n \in 0..MaxStepBatch}

\* ---- _save_metadata (lines 49-54) ----
\* variant: the registry is written in place, without the temporary file
SaveOpenInPlace(t) ==
    /\ thr[t].at = "save_open"
    /\ meta_file' = Truncated
    /\ thr' = [thr EXCEPT ![t] = [@ EXCEPT !.at = "save_dump", !.fd = "meta"]]
    /\ UNCHANGED <<file_map, indices, pdfs, snap, tmp_file, now, pre, hist>>

\* open(tmp, "w") creates the file or truncates it
SaveOpen(t) ==
    /\ thr[t].at = "save_open"
    /\ tmp_file' = Truncated
    /\ thr' = [thr EXCEPT ![t] = [@ EXCEPT !.at = "save_dump", !.fd = "tmp"]]
    /\ UNCHANGED <<file_map, indices, pdfs, snap, meta_file, now, pre, hist>>

\* json.dump(self._file_map, f): the text stays in the file object's buffer
SaveDump(t) ==
    /\ thr[t].at = "save_dump"
    /\ thr' = [thr EXCEPT ![t] = [@ EXCEPT !.at = "save_close", !.buf = file_map]]
    /\ UNCHANGED <<file_map, indices, pdfs, snap, meta_file, tmp_file, now, pre, hist>>

\* the length of the JSON text of a registry: the filenames of the model
\* are equally long and so are the uids, so it grows with the entries
TextLen(data) == Cardinality(DOMAIN data)

\* what a file holds after the text of `data` is written over it from
\* offset 0: the end of a longer text another writer left there survives
\* behind it, and the whole is no JSON document (its data field then keeps
\* the longer registry, for the length)
Flushed(file, data) ==
    IF file.exists /\ TextLen(file.data) > TextLen(data)
    THEN [exists |-> TRUE, complete |-> FALSE, data |-> file.data]
    ELSE json_dump(data)

\* leaving the with block flushes the buffer to the file that was opened
SaveClose(t) ==
    /\ thr[t].at = "save_close"
    /\ \E content \in {Flushed(IF thr[t].fd = "meta" THEN meta_file ELSE tmp_file,
                               thr[t].buf)} :
          /\ tmp_file' = IF thr[t].fd = "tmp" THEN content ELSE tmp_file
          /\ meta_file' = IF thr[t].fd = "meta" THEN content ELSE meta_file
    /\ thr' = [thr EXCEPT ![t] = [@ EXCEPT !.at = "save_replace",
                                           !.buf = EmptyMap, !.fd = "none"]]
    /\ UNCHANGED <<file_map, indices, pdfs, snap, now, pre, hist>>

\* os.replace(tmp, META_PATH); FileNotFoundError when tmp is gone
SaveReplace(t) ==
    /\ thr[t].at = "save_replace"
    /\ IF tmp_file.exists
       THEN /\ meta_file' = tmp_file
            /\ tmp_file' = NoFile
            /\ thr' = [u \in Threads |->
                         IF u = t THEN Done(thr[t], FALSE)
                         ELSE [thr[u] EXCEPT !.fd =
                                 CASE @ = "tmp" -> "meta"
                                   [] @ = "meta" -> "orphan"
                                   [] OTHER -> @]]
       ELSE /\ thr' = [thr EXCEPT ![t] = Done(@, TRUE)]
            /\ UNCHANGED <<meta_file, tmp_file>>
    /\ UNCHANGED <<file_map, indices, pdfs, snap, now, pre, hist>>

\* ---- add_pdfs (lines 118-135) and add_from_url (lines 137-147) ----
BeginAddPdfs(t) ==
    /\ thr[t].at = "idle"
    /\ \E file_paths \in StepBatches(PathItems) :
          /\ now + PendingUids + Len(file_paths) <= MaxUid
          /\ thr' = [thr EXCEPT ![t] = [IdleThread EXCEPT
                        !.op = "add_pdfs", !.items = file_paths,
                        !.todo = file_paths, !.at = NextAt(file_paths)]]
    /\ UNCHANGED <<file_map, indices, pdfs, snap, meta_file, tmp_file, now, pre, hist>>

BeginAddFromUrl(t) ==
    /\ thr[t].at = "idle"
    /\ \E items \in StepBatches(PdfItems) :
          /\ now + PendingUids + Len(items) <= MaxUid
          /\ thr' = [thr EXCEPT ![t] = [IdleThread EXCEPT
                        !.op = "add_from_url", !.items = items,
                        !.todo = items, !.at = "download"]]
    /\ UNCHANGED <<file_map, indices, pdfs, snap, meta_file, tmp_file, now, pre, hist>>

\* download_from_url writes every file of the batch (line 138)
DownloadAll(t) ==
    /\ thr[t].at = "download"
    /\ pdfs' = Download(pdfs, thr[t].items)
    /\ thr' = [thr EXCEPT ![t] = [@ EXCEPT !.at = NextAt(thr[t].todo)]]
    /\ UNCHANGED <<file_map, indices, snap, meta_file, tmp_file, now, pre, hist>>

\* one pass of the loop up to the write of _file_map (lines 122-131,
\* 141-143); os.stat raises when the downloaded file is gone
Register(t) ==
    /\ thr[t].at = "register"
    /\ LET src == Head(thr[t].todo)
           filename == src.filename
       IN  IF src.filename = NotPdf
           THEN /\ thr' = [thr EXCEPT ![t] = [@ EXCEPT !.todo = Tail(@),
                                                  !.at = NextAt(Tail(thr[t].todo))]]
                /\ UNCHANGED <<file_map, pdfs, now>>
           ELSE IF thr[t].op = "add_from_url" /\ filename \notin DOMAIN pdfs
           THEN /\ thr' = [thr EXCEPT ![t] = Done(@, TRUE)]
                /\ UNCHANGED <<file_map, pdfs, now>>
           ELSE \E uid \in {GenerateUid(filename, src.doc, now)} :
                /\ pdfs' = Put(pdfs, filename, src.doc)
                /\ now' = now + 1
                /\ file_map' = Put(file_map, filename,
                                   [uid |-> uid, pdf_path |-> filename])
                /\ thr' = [thr EXCEPT ![t] = [@ EXCEPT
                              !.filename = filename, !.uid = uid,
                              !.pdf_path = filename, !.at = "ensure"]]
    /\ UNCHANGED <<indices, snap, meta_file, tmp_file, pre, hist>>

\* _ensure_index_for_uid up to its assignment (lines 77-83)
Ensure(t) ==
    /\ thr[t].at = "ensure"
    /\ LET uid == thr[t].uid
           idx_dir == IndexDirForUid(uid)
       IN  IF uid \in DOMAIN indices
           THEN /\ thr' = [thr EXCEPT ![t] = [@ EXCEPT !.todo = Tail(@),
                                                  !.at = NextAt(Tail(thr[t].todo))]]
                /\ snap' = snap
           ELSE IF ~LoadRaises(idx_dir, snap)
           THEN /\ thr' = [thr EXCEPT ![t] = [@ EXCEPT
                              !.ret = IndexLoad(idx_dir, snap), !.at = "publish"]]
                /\ snap' = snap
           ELSE \E b \in {BuildIndexForPdf(Cur, thr[t].pdf_path, uid, {})} :
                IF b.raised
                THEN /\ thr' = [thr EXCEPT ![t] = Done(@, TRUE)]
                     /\ snap' = snap
                ELSE /\ thr' = [thr EXCEPT ![t] = [@ EXCEPT
                                   !.ret = b.ret, !.at = "publish"]]
                     /\ snap' = b.snap
    /\ UNCHANGED <<file_map, indices, pdfs, meta_file, tmp_file, now, pre, hist>>

\* self._indices[uid] = index (line 84), then the next file or the save
Publish(t) ==
    /\ thr[t].at = "publish"
    /\ indices' = Put(indices, thr[t].uid, thr[t].ret)
    /\ thr' = [thr EXCEPT ![t] = [@ EXCEPT !.todo = Tail(@),
                                           !.ret = IdleThread.ret,
                                           !.at = NextAt(Tail(thr[t].todo))]]
    /\ UNCHANGED <<file_map, pdfs, snap, meta_file, tmp_file, now, pre, hist>>

\* ---- delete_pdf (lines 159-191) ----
BeginDeletePdf(t) ==
    /\ thr[t].at = "idle"
    /\ \E filename \in Filenames :
          thr' = [thr EXCEPT ![t] = [IdleThread EXCEPT
                     !.op = "delete_pdf", !.filename = filename, !.at = "lookup"]]
    /\ UNCHANGED <<file_map, indices, pdfs, snap, meta_file, tmp_file, now, pre, hist>>

\* lines 160-164
Lookup(t) ==
    /\ thr[t].at = "lookup"
    /\ IF thr[t].filename \notin DOMAIN file_map
       THEN thr' = [thr EXCEPT ![t] = Done(@, FALSE)]
       ELSE thr' = [thr EXCEPT ![t] = [@ EXCEPT
                       !.uid = file_map[thr[t].filename].uid,
                       !.pdf_path = file_map[thr[t].filename].pdf_path,
                       !.at = "rm_pdf"]]
    /\ UNCHANGED <<file_map, indices, pdfs, snap, meta_file, tmp_file, now, pre, hist>>

\* lines 165-169
RmPdf(t) ==
    /\ thr[t].at = "rm_pdf"
    /\ pdfs' = Drop(pdfs, thr[t].pdf_path)
    /\ thr' = [thr EXCEPT ![t] = [@ EXCEPT !.at = "del_index"]]
    /\ UNCHANGED <<file_map, indices, snap, meta_file, tmp_file, now, pre, hist>>

\* lines 170-171
DelIndex(t) ==
    /\ thr[t].at = "del_index"
    /\ indices' = Drop(indices, thr[t].uid)
    /\ thr' = [thr EXCEPT ![t] = [@ EXCEPT !.at = "rm_snap"]]
    /\ UNCHANGED <<file_map, pdfs, snap, meta_file, tmp_file, now, pre, hist>>

\* lines 172-188
RmSnap(t) ==
    /\ thr[t].at = "rm_snap"
    /\ snap' = Drop(snap, IndexDirForUid(thr[t].uid))
    /\ thr' = [thr EXCEPT ![t] = [@ EXCEPT !.at = "pop"]]
    /\ UNCHANGED <<file_map, indices, pdfs, meta_file, tmp_file, now, pre, hist>>

\* line 189
Pop(t) ==
    /\ thr[t].at = "pop"
    /\ file_map' = Drop(file_map, thr[t].filename)
    /\ thr' = [thr EXCEPT ![t] = [@ EXCEPT !.at = "save_open"]]
    /\ UNCHANGED <<indices, pdfs, snap, meta_file, tmp_file, now, pre, hist>>

\* ---- reset_indexes_and_metadata (lines 196-222) ----
BeginReset(t) ==
    /\ thr[t].at = "idle"
    /\ thr' = [thr EXCEPT ![t] = [IdleThread EXCEPT
                  !.op = "reset", !.at = "clear_indices"]]
    /\ UNCHANGED <<file_map, indices, pdfs, snap, meta_file, tmp_file, now, pre, hist>>

\* line 198
ClearIndices(t) ==
    /\ thr[t].at = "clear_indices"
    /\ indices' = EmptyMap
    /\ thr' = [thr EXCEPT ![t] = [@ EXCEPT !.at = "clear_map"]]
    /\ UNCHANGED <<file_map, pdfs, snap, meta_file, tmp_file, now, pre, hist>>

\* line 199
ClearMap(t) ==
    /\ thr[t].at = "clear_map"
    /\ file_map' = EmptyMap
    /\ thr' = [thr EXCEPT ![t] = [@ EXCEPT !.at = "rm_ids"]]
    /\ UNCHANGED <<indices, pdfs, snap, meta_file, tmp_file, now, pre, hist>>

\* lines 201-212
RmIds(t) ==
    /\ thr[t].at = "rm_ids"
    /\ snap' = EmptyMap
    /\ thr' = [thr EXCEPT ![t] = [@ EXCEPT !.at = "rm_meta"]]
    /\ UNCHANGED <<file_map, indices, pdfs, meta_file, tmp_file, now, pre, hist>>

\* lines 214-218: os.remove(META_PATH) unlinks the file
RmMeta(t) ==
    /\ thr[t].at = "rm_meta"
    /\ meta_file' = NoFile
    /\ thr' = [u \in Threads |->
                 IF u = t THEN [thr[t] EXCEPT !.at = "save_open"]
                 ELSE [thr[u] EXCEPT !.fd = IF @ = "meta" THEN "orphan" ELSE @]]
    /\ UNCHANGED <<file_map, indices, pdfs, snap, tmp_file, now, pre, hist>>

\* ---- CorpusManager() (lines 26-35) ----
Booting == [IdleThread EXCEPT !.op = "init", !.at = "load_meta"]

\* _load_metadata (line 34)
LoadMeta(t) ==
    /\ thr[t].at = "load_meta"
    /\ file_map' = LoadMetadata(meta_file)
    /\ thr' = [thr EXCEPT ![t] = [@ EXCEPT !.at = "load_indices"]]
    /\ UNCHANGED <<indices, pdfs, snap, meta_file, tmp_file, now, pre, hist>>

\* the loop of _load_existing_indices (lines 88-98)
LoadIndices(t) ==
    /\ thr[t].at = "load_indices"
    /\ \E st \in {LoadExistingIndices(Cur, {})} :
          /\ file_map' = st.file_map
          /\ indices' = st.indices
          /\ snap' = st.snap
    /\ thr' = [thr EXCEPT ![t] = [@ EXCEPT !.at = "save_open"]]
    /\ UNCHANGED <<pdfs, meta_file, tmp_file, now, pre, hist>>

\* the caller has its result and may call again
Return(t) ==
    /\ thr[t].at = "done"
    /\ thr' = [thr EXCEPT ![t] = IdleThread]
    /\ UNCHANGED <<file_map, indices, pdfs, snap, meta_file, tmp_file, now, pre, hist>>

\* the process ends: its memory is lost, the disk stays; it is started again
Crash ==
    /\ file_map' = EmptyMap
    /\ indices' = EmptyMap
    /\ thr' = [thr EXCEPT ![1] = Booting]
    /\ UNCHANGED <<pdfs, snap, meta_file, tmp_file, now, pre, hist>>

(***************************************************************************)
(* SpecConc: two threads, one mutating call each, on a manager that has    *)
(* ingested none, one or two files.                                        *)
(***************************************************************************)
ConcSetups ==
    {<<>>,
     <<[filename |-> "a.pdf", doc |-> "d1"]>>,
     <<[filename |-> "a.pdf", doc |-> "d1"], [filename |-> "b.pdf", doc |-> "d1"]>>}

ConcInit ==
    \E setup \in ConcSetups :
      \E st \in {AddPdfsOp(Start(EmptyMap, EmptyMap, EmptyMap, EmptyMap, 0),
                           setup, {}).st} :
        /\ file_map = st.file_map
        /\ indices = st.indices
        /\ pdfs = st.pdfs
        /\ snap = st.snap
        /\ now = st.now
        /\ meta_file = SaveMetadata(st.file_map)
        /\ tmp_file = NoFile
        /\ thr = [t \in Threads |-> IdleThread]
        /\ pre = [file_map |-> st.file_map, indices |-> st.indices,
                  pdfs |-> st.pdfs, snap |-> st.snap, now |-> st.now,
                  meta_file |-> SaveMetadata(st.file_map)]
        /\ gone = {}
        /\ lastOp = NoOp
        /\ NoQuery

ConcNext ==
    \E t \in Threads :
        \/ BeginAddPdfs(t) \/ BeginAddFromUrl(t) \/ DownloadAll(t)
        \/ Register(t) \/ Ensure(t) \/ Publish(t)
        \/ BeginDeletePdf(t) \/ Lookup(t) \/ RmPdf(t) \/ DelIndex(t)
        \/ RmSnap(t) \/ Pop(t)
        \/ BeginReset(t) \/ ClearIndices(t) \/ ClearMap(t) \/ RmIds(t) \/ RmMeta(t)
        \/ SaveOpen(t) \/ SaveDump(t) \/ SaveClose(t) \/ SaveReplace(t)

SpecConc == ConcInit /\ [][ConcNext]_vars

(***************************************************************************)
(* SpecCrash: one caller; the process may end after any step.  It starts   *)
(* with the construction of the manager over an empty data directory.      *)
(***************************************************************************)
CrashInit ==
    /\ file_map = EmptyMap
    /\ indices = EmptyMap
    /\ pdfs = EmptyMap
    /\ snap = EmptyMap
    /\ now = 0
    /\ meta_file = NoFile
    /\ tmp_file = NoFile
    /\ thr = [t \in Threads |-> IF t = 1 THEN Booting ELSE IdleThread]
    /\ pre = NoPre
    /\ gone = {}
    /\ lastOp = NoOp
    /\ NoQuery

CrashNext ==
    \/ LoadMeta(1) \/ LoadIndices(1) \/ Return(1) \/ Crash
    \/ BeginAddPdfs(1) \/ BeginAddFromUrl(1) \/ DownloadAll(1)
    \/ Register(1) \/ Ensure(1) \/ Publish(1)
    \/ BeginDeletePdf(1) \/ Lookup(1) \/ RmPdf(1) \/ DelIndex(1)
    \/ RmSnap(1) \/ Pop(1)
    \/ BeginReset(1) \/ ClearIndices(1) \/ ClearMap(1) \/ RmIds(1) \/ RmMeta(1)
    \/ SaveOpen(1) \/ SaveDump(1) \/ SaveClose(1) \/ SaveReplace(1)

SpecCrash == CrashInit /\ [][CrashNext]_vars

(***************************************************************************)
(* SpecAsk: two threads call ask once each on a manager that has ingested  *)
(* none, one or two files; no ingest, removal or reset runs.  The steps of *)
(* ask (corpus.py, lines 149-157) are the test of _indices, the aggregate  *)
(* query, set_style and the read of the style in answer (qa.py, line 39).  *)
(***************************************************************************)
Styles == {DefaultStyle, "detailed"}

BeginAsk(t) ==
    /\ thr[t].at = "idle"
    /\ \E top_k \in 1..MaxTopK, style \in Styles :
          thr' = [thr EXCEPT ![t] = [IdleThread EXCEPT
                     !.op = "ask", !.at = "check",
                     !.top_k = top_k, !.style = style]]
    /\ UNCHANGED <<file_map, indices, pdfs, snap, meta_file, tmp_file, now, pre, hist>>

\* lines 150-151: without indices ask returns at once
AskCheck(t) ==
    /\ thr[t].op = "ask" /\ thr[t].at = "check"
    /\ thr' = [thr EXCEPT ![t].at = IF DOMAIN indices = {} THEN "done"
                                    ELSE "aggregate"]
    /\ UNCHANGED <<file_map, indices, pdfs, snap, meta_file, tmp_file, now, pre, hist>>

\* lines 152-154: the chunks of this call
AskAggregate(t) ==
    /\ thr[t].op = "ask" /\ thr[t].at = "aggregate"
    /\ \E fused \in AggregateQuery(indices, thr[t].top_k) :
          thr' = [thr EXCEPT ![t].fused = fused, ![t].at = "set_style"]
    /\ UNCHANGED <<file_map, indices, pdfs, snap, meta_file, tmp_file, now, pre, hist>>

\* line 155
AskSetStyle(t) ==
    /\ thr[t].op = "ask" /\ thr[t].at = "set_style"
    /\ generator' = set_style(generator, thr[t].style)
    /\ thr' = [thr EXCEPT ![t].at = "answer"]
    /\ UNCHANGED <<file_map, indices, pdfs, snap, meta_file, tmp_file, now, pre,
                   gone, lastOp, BM25Okapi, ci, call, window>>

\* line 156: answer returns "Insufficient evidence." for no contexts
\* (qa.py, lines 27-28) and builds its prompt from the style the generator
\* has at that moment otherwise
AskAnswer(t) ==
    /\ thr[t].op = "ask" /\ thr[t].at = "answer"
    /\ thr' = [thr EXCEPT ![t].prefix = IF thr[t].fused = <<>> THEN ""
                                        ELSE StylePrefix(generator),
                          ![t].at = "done"]
    /\ UNCHANGED <<file_map, indices, pdfs, snap, meta_file, tmp_file, now, pre, hist>>

AskNext ==
    \E t \in Threads :
        \/ BeginAsk(t) \/ AskCheck(t) \/ AskAggregate(t)
        \/ AskSetStyle(t) \/ AskAnswer(t)

SpecAsk == ConcInit /\ [][AskNext]_vars

(***************************************************************************)
(* SpecQuery: the query path on its own.  One ChunkIndex object is built,  *)
(* queried, saved and loaded; the reranker is called on a pool of          *)
(* candidates; _aggregate_query issues its per-index queries.  What the    *)
(* external models and libraries compute (the neighbours kneighbors finds, *)
(* the BM25 scores and their argsort, the cross-encoder's scores) is an    *)
(* input of each call.                                                     *)
(***************************************************************************)
manager == <<file_map, indices, pdfs, snap, meta_file, now, gone, lastOp,
             tmp_file, thr, pre, generator>>
corpus == <<manager, window>>

ModelNames == {DefaultModelName, "./models/minilm "}
NNeighbors == {DefaultNNeighbors, 2}

Passage(content, page) ==
    [type |-> "text", paper_id |-> "a.pdf", page |-> page, content |-> content]

ChunkLists ==
    {<<Passage("Ab cd", 1)>>,
     <<Passage("Ab cd", 1), Passage("t1  CD", 1)>>,
     <<Passage("t1  CD", 1), Passage("Ab cd", 1), Passage("ab", 2)>>}

SimValues == {-1, 0, 1}        \* cosine similarities
BmValues == {-1, 0, 2}         \* BM25 scores (negative with a negative idf)
Alphas == {Zero, DefaultAlpha, One}
RerankValues == {0, 1}         \* cross-encoder scores

\* the lists of all n rows with a value each, by falling value; rows of
\* equal value come in any order (the library's)
Rankings(n, Values) ==
    {[j \in 1..n |-> <<r[j][1], R(r[j][2], 1)>>] :
        r \in {x \in [1..n -> (1..n) \X Values] :
                  /\ \A i, j \in 1..n : i /= j => x[i][1] /= x[j][1]
                  /\ \A i, j \in 1..n : i < j => x[i][2] >= x[j][2]}}

Built(self) == ~self.index.none /\ ~self.embeddings.none

DenseOutcomes(self) ==
    IF Built(self) THEN Rankings(Len(self.index.val.fit), SimValues) ELSE {<<>>}

BmOutcomes(self) ==
    IF self.bm25.none THEN {<<>>} ELSE Rankings(Len(self.bm25.val), BmValues)

MaxCands == 3        \* candidates handed to one rerank call
MaxIndices == 10     \* loaded indices of a federation query
MaxAggTopK == 7      \* largest top_k of a federation query

CandSet == {[id |-> i, content |-> i, score |-> s] : i \in {"x", "y"}, s \in {0, 1}}
Pools == UNION {[1..n -> CandSet] : n \in 0..MaxCands}

Called(fn, args, r) ==
    call' = [fn |-> fn, args |-> args, out |-> r.out, raised |-> r.raised]

QueryArgs(nn, bm, top_k, alpha) ==
    [nn |-> nn, bm |-> bm, top_k |-> top_k, alpha |-> alpha]

QInit ==
    /\ Init!1 /\ Init!2 /\ Init!3 /\ Init!4 /\ Init!5 /\ Init!6 /\ Init!7
    /\ lastOp = NoOp
    /\ tmp_file = NoFile
    /\ thr = [t \in Threads |-> IdleThread]
    /\ pre = NoPre
    /\ BM25Okapi \in BOOLEAN
    /\ ci \in {ChunkIndex(m) : m \in ModelNames}
    /\ call = NoCall
    /\ generator = SimpleGenerator(DefaultStyle)
    /\ window = NoWindow

Build ==
    /\ call = NoCall
    /\ \E chunks \in ChunkLists, n_neighbors \in NNeighbors :
          ci' = build(ci, chunks, n_neighbors, BM25Okapi)
    /\ Called("build", <<>>, [out |-> <<>>, raised |-> FALSE])
    /\ UNCHANGED <<corpus, BM25Okapi>>

QueryDense ==
    /\ call = NoCall
    /\ \E nn \in DenseOutcomes(ci), top_k \in 1..MaxTopK :
          Called("query_dense", QueryArgs(nn, <<>>, top_k, DefaultAlpha),
                 query_dense(ci, nn, top_k))
    /\ UNCHANGED <<corpus, BM25Okapi, ci>>

QueryBm25 ==
    /\ call = NoCall
    /\ \E bm \in BmOutcomes(ci), top_k \in 1..MaxTopK :
          Called("query_bm25", QueryArgs(<<>>, bm, top_k, DefaultAlpha),
                 query_bm25(ci, bm, top_k))
    /\ UNCHANGED <<corpus, BM25Okapi, ci>>

Retrieve ==
    /\ call = NoCall
    /\ \E nn \in DenseOutcomes(ci), bm \in BmOutcomes(ci) :
        \E top_k \in 1..MaxTopK, alpha \in Alphas :
          \E r \in {retrieve(ci, nn, bm, top_k, alpha)} :
              Called("retrieve", QueryArgs(nn, bm, top_k, alpha), r)
    /\ UNCHANGED <<corpus, BM25Okapi, ci>>

Query ==
    /\ call = NoCall
    /\ \E nn \in DenseOutcomes(ci), bm \in BmOutcomes(ci) :
        \E top_k \in 1..MaxTopK :
          \E r \in {query(ci, nn, bm, top_k)} :
              Called("query", QueryArgs(nn, bm, top_k, DefaultAlpha), r)
    /\ UNCHANGED <<corpus, BM25Okapi, ci>>

\* index.save(out_dir): the call record holds the directory
Save ==
    /\ call = NoCall
    /\ Called("save", [orig |-> ci], [out |-> save(ci), raised |-> FALSE])
    /\ UNCHANGED <<corpus, BM25Okapi, ci>>

\* index = ChunkIndex.load(in_dir) of the directory just written
Load ==
    /\ call.fn = "save"
    /\ IF load_raises(call.out)
       THEN /\ Called("load", call.args, [out |-> <<>>, raised |-> TRUE])
            /\ ci' = ci
       ELSE /\ ci' = load(call.out, BM25Okapi)
            /\ Called("load", call.args, [out |-> <<>>, raised |-> FALSE])
    /\ UNCHANGED <<corpus, BM25Okapi>>

RerankCall ==
    /\ call = NoCall
    /\ \E candidates \in Pools, top_k \in 0..MaxTopK :
        \E scores \in [1..Len(candidates) -> RerankValues] :
          Called("rerank",
                 [candidates |-> candidates, scores |-> scores, top_k |-> top_k],
                 [out |-> rerank(candidates, scores, top_k), raised |-> FALSE])
    /\ UNCHANGED <<corpus, BM25Okapi, ci>>

\* the per-index queries of _aggregate_query over n loaded indices
AggregateQueries ==
    /\ call = NoCall
    /\ \E n \in 0..MaxIndices, top_k \in 1..MaxAggTopK :
          Called("aggregate", [uids |-> [i \in 1..n |-> i], top_k |-> top_k],
                 [out |-> AggregateCalls([i \in 1..n |-> i], top_k),
                  raised |-> FALSE])
    /\ UNCHANGED <<corpus, BM25Okapi, ci>>

\* the caller has the result of the call and may call again
Returned ==
    /\ call /= NoCall
    /\ call' = NoCall
    /\ UNCHANGED <<corpus, BM25Okapi, ci>>

QNext ==
    \/ Build \/ QueryDense \/ QueryBm25 \/ Retrieve \/ Query
    \/ Save \/ Load \/ RerankCall \/ AggregateQueries \/ Returned

SpecQuery == QInit /\ [][QNext]_vars

(***************************************************************************)
(* SpecUtils: the pure functions of utils.py on their own.  build is       *)
(* handed two chunks and computes their ids; sliding_window_chunks runs    *)
(* its outer loop one iteration at a time.                                 *)
(***************************************************************************)
IdChunks ==
    {[type |-> ty, paper_id |-> p, page |-> n, content |-> c] :
        ty \in {"text", "table"}, p \in {"a", "a1"}, n \in {2, 12},
        c \in {"x", "y"}}

\* ChunkIndex.build, lines 35-40: the passage records with their ids
ComputeIds ==
    /\ call = NoCall
    /\ window = NoWindow
    /\ \E chunks \in [1..2 -> IdChunks] :
          Called("compute_id", chunks,
                 [out |-> IndexBuild(chunks).meta, raised |-> FALSE])
    /\ UNCHANGED <<corpus, BM25Okapi, ci>>

MaxSentences == 3    \* sentences handed to sliding_window_chunks
MaxChars == 4        \* largest max_chars
MaxOverlap == 2      \* largest overlap_sentences

Sentences == {"", "a", "bc", "def"}
SentenceLists == UNION {[1..n -> Sentences] : n \in 0..MaxSentences}

\* sliding_window_chunks is called (lines 40-42); start is 1-based here
BeginWindows ==
    /\ call = NoCall /\ window = NoWindow
    /\ \E sentences \in SentenceLists, max_chars \in 0..MaxChars,
          overlap_sentences \in 0..MaxOverlap :
          window' = [NoWindow EXCEPT !.sentences = sentences,
                                     !.max_chars = max_chars,
                                     !.overlap_sentences = overlap_sentences,
                                     !.at = "while"]
    /\ UNCHANGED <<manager, BM25Okapi, ci, call>>

\* one test of the outer loop and, when it holds, one iteration
\* (lines 43-58)
WindowStep ==
    /\ window.at = "while"
    /\ LET sentences == window.sentences
           start == window.start
           step(i0) ==
               LET current == IF i0 = start
                              THEN <<Prefix(sentences[start], window.max_chars)>>
                              ELSE SubSeq(sentences, start, i0 - 1)
                   i == IF i0 = start THEN start + 1 ELSE i0
                   chunks == Append(window.chunks, Join(current))
               IN  IF i > Len(sentences)
                   THEN [window EXCEPT !.chunks = chunks, !.at = "return"]
                   ELSE [window EXCEPT !.chunks = chunks,
                            !.start = Max(i - window.overlap_sentences, start + 1)]
       IN  window' = IF start > Len(sentences)
                     THEN [window EXCEPT !.at = "return"]
                     ELSE step(Fill(sentences, start, 0, window.max_chars))
    /\ UNCHANGED <<manager, BM25Okapi, ci, call>>

\* line 59: the chunks go to the caller
WindowReturn ==
    /\ window.at = "return"
    /\ window' = NoWindow
    /\ UNCHANGED <<manager, BM25Okapi, ci, call>>

UtilNext == ComputeIds \/ Returned \/ BeginWindows \/ WindowStep \/ WindowReturn

SpecUtils == Init /\ [][UtilNext]_vars

\* the loop of sliding_window_chunks is not held up for ever
SpecUtilsFair == SpecUtils /\ WF_vars(WindowStep)

(***************************************************************************)
(* Properties of Spec.                                                     *)
(***************************************************************************)
TopKs == 1..MaxTopK
RegistryUids == {file_map[f].uid : f \in DOMAIN file_map}

\* C1: once delete_pdf(filename) has returned deleted=True, no later ask()
\* returns a chunk whose paper_id is that filename, until the filename is
\* added again.
C1_DeleteThenQuery ==
    \A top_k \in TopKs : \A fused \in AskOp(indices, top_k) :
        \A i \in 1..Len(fused) : fused[i].paper_id \notin gone

\* C2: in every reachable state and for every top_k, the chunk list ask()
\* returns holds no two chunks with the same id.
C2_NoDuplicateIds ==
    \A top_k \in TopKs : \A fused \in AskOp(indices, top_k) :
        \A i, j \in 1..Len(fused) : i /= j => fused[i].id /= fused[j].id

\* C4: whenever a mutating operation has finished, by returning or by
\* raising, the registry stored at META_PATH equals the in-memory _file_map.
C4_RegistryPersisted ==
    /\ meta_file.exists
    /\ ~JsonLoadRaises(meta_file)
    /\ json_load(meta_file) = file_map

\* C3 as claimed: delete_pdf on a registered filename always ends with the
\* registry entry and the in-memory index of its uid gone, whatever removal
\* the file system refuses, the removal of the source PDF included.
C3_DeleteAlwaysCompletes ==
    [][(lastOp'.op = "delete_pdf" /\ lastOp'.filename \in DOMAIN file_map)
         => /\ lastOp'.filename \notin DOMAIN file_map'
            /\ file_map[lastOp'.filename].uid \notin DOMAIN indices']_vars

\* C3 amended: delete_pdf on a registered filename ends with the entry and
\* the index of its uid gone and the registry saved, whatever removals of
\* snapshot files or of the snapshot directory are refused; when the removal
\* of the source PDF is refused it returns deleted=False and leaves the
\* entry, the index, the snapshot and the registry file as they were.
C3_DeleteBestEffort ==
    [][(lastOp'.op = "delete_pdf" /\ lastOp'.filename \in DOMAIN file_map)
         => LET filename == lastOp'.filename
                uid == file_map[filename].uid
            IN  IF "pdf" \in lastOp'.rm_failed
                THEN /\ ~lastOp'.deleted
                     /\ filename \in DOMAIN pdfs'
                     /\ UNCHANGED <<file_map, indices, pdfs, snap, meta_file>>
                ELSE /\ lastOp'.deleted
                     /\ filename \notin DOMAIN file_map'
                     /\ uid \notin DOMAIN indices'
                     /\ file_map[filename].pdf_path \notin DOMAIN pdfs'
                     /\ meta_file' = SaveMetadata(file_map')]_vars

\* a delete that returned deleted=True although a snapshot removal was
\* refused: the directory is still on disk, entry and index are gone
C3_Witness ==
    /\ lastOp.op = "delete_pdf"
    /\ lastOp.deleted
    /\ lastOp.rm_failed /= {}
    /\ IndexDirForUid(lastOp.uid) \in DOMAIN snap
    /\ lastOp.filename \notin DOMAIN file_map
    /\ lastOp.uid \notin DOMAIN indices

\* C7: an entry kept by startup without an index (uid in _file_map, not in
\* _indices) has its index built by the first ask() after startup: after
\* that call every registered uid is in _indices.
C7_LazySelfHealing ==
    [][(lastOp.op = "init" /\ lastOp'.op = "ask")
         => \A f \in DOMAIN file_map : file_map[f].uid \in DOMAIN indices']_vars

\* C8 as claimed: constructing a CorpusManager builds nothing and writes no
\* snapshot, also for the entries whose snapshot fails to load.
C8_StartupOnlyLoads ==
    lastOp.op = "init" => lastOp.built = {} /\ lastOp.saved = {}

\* C8 amended: constructing a CorpusManager attempts ChunkIndex.load for
\* every registry entry whose source file exists; for exactly the entries
\* whose load fails it parses and builds the index from the source PDF, and
\* it writes the snapshot and keeps the index when that build succeeds; an
\* entry whose build fails too stays registered without an index.
C8_StartupLoadsOrBuilds ==
    [][lastOp'.op = "init"
         => LET fm == LoadMetadata(meta_file)
                kept == {f \in DOMAIN fm : fm[f].pdf_path \in DOMAIN pdfs}
                uids == {fm[f].uid : f \in kept}
            IN  /\ file_map' = [f \in kept |-> fm[f]]
                /\ lastOp'.loaded = uids
                /\ lastOp'.built =
                      {u \in uids : LoadRaises(IndexDirForUid(u), snap)}
                /\ lastOp'.saved = lastOp'.built \cap DOMAIN indices'
                /\ \A u \in lastOp'.saved :
                      /\ ~LoadRaises(IndexDirForUid(u), snap')
                      /\ indices'[u] = IndexLoad(IndexDirForUid(u), snap')
                /\ \A u \in uids \ lastOp'.built :
                      /\ u \in DOMAIN indices'
                      /\ snap'[IndexDirForUid(u)] = snap[IndexDirForUid(u)]
                /\ DOMAIN indices' \subseteq uids]_vars

\* a startup that built an index and wrote its snapshot
C8_Witness ==
    /\ lastOp.op = "init"
    /\ lastOp.built /= {}
    /\ lastOp.saved /= {}
    /\ lastOp.saved \subseteq DOMAIN indices

\* C9: a build runs for a uid only when the uid is not in _indices and the
\* load of its snapshot fails; a uid with a valid snapshot on disk, or with
\* its index in memory, is not built again.
C9_AtMostOneBuild ==
    [][\A u \in lastOp'.built :
          /\ LoadRaises(IndexDirForUid(u), snap)
          /\ lastOp'.op /= "init" => u \notin DOMAIN indices]_vars

\* a startup that found a valid snapshot: the index is loaded, not built
C9_Witness ==
    /\ lastOp.op = "init"
    /\ lastOp.loaded /= {}
    /\ lastOp.built = {}
    /\ lastOp.loaded \subseteq DOMAIN indices

\* C10: add_pdfs does not surface the failed load of a snapshot: when the
\* build of every file of the batch succeeds the call returns, and for each
\* file it registered the load had failed, the index was built, its
\* snapshot is on disk under the uid's directory, the uid is in _indices and
\* the filename in the registry; the only exception that leaves add_pdfs is
\* the one of a build.
C10_LoadFailureRecovered ==
    [][lastOp'.op = "add_pdfs"
         => /\ lastOp'.raised <=> ~lastOp'.buildable
            /\ ~lastOp'.raised =>
                  \A f \in Written(file_map') :
                      LET uid == file_map'[f].uid
                      IN  /\ LoadRaises(IndexDirForUid(uid), snap)
                          /\ uid \in lastOp'.built
                          /\ uid \in lastOp'.saved
                          /\ ~LoadRaises(IndexDirForUid(uid), snap')
                          /\ uid \in DOMAIN indices'
                          /\ indices'[uid] = IndexLoad(IndexDirForUid(uid), snap')]_vars

\* add_pdfs returned after a failed load: the index was built and kept
C10_Witness ==
    /\ lastOp.op = "add_pdfs"
    /\ ~lastOp.raised
    /\ lastOp.loaded /= {}
    /\ lastOp.built = lastOp.loaded
    /\ lastOp.built \subseteq DOMAIN indices
    /\ \A u \in lastOp.built : ~LoadRaises(IndexDirForUid(u), snap)
    /\ lastOp.built \subseteq RegistryUids

\* list_pdfs: the registered filenames, sorted
NameOrder == <<"a.pdf", "b.pdf">>
list_pdfs(fm) == SelectSeq(NameOrder, LAMBDA f : f \in DOMAIN fm)

\* C12: after reset_indexes_and_metadata(), whatever the state before,
\* list_pdfs() returns the empty list, _indices is empty, the registry at
\* META_PATH is the empty object, and an ask() that follows returns an empty
\* chunk list for every top_k.
C12_ResetEmpties ==
    lastOp.op = "reset" =>
        /\ list_pdfs(file_map) = <<>>
        /\ indices = EmptyMap
        /\ meta_file = json_dump(EmptyMap)
        /\ \A top_k \in TopKs : AskOp(indices, top_k) = {<<>>}

\* a reset of a manager that had ingested: a source file is still on disk,
\* and so is a snapshot directory whose removal was refused
C12_Witness ==
    /\ lastOp.op = "reset"
    /\ pdfs /= EmptyMap
    /\ snap /= EmptyMap
    /\ file_map = EmptyMap
    /\ indices = EmptyMap

\* C13: delete_pdf of a filename that is not in the registry returns
\* deleted=False as a value, with no exception, and leaves _file_map,
\* _indices, the registry at META_PATH, the source files and the snapshots
\* as they were.
C13_DeleteNotFound ==
    [][(lastOp'.op = "delete_pdf" /\ lastOp'.filename \notin DOMAIN file_map)
         => /\ ~lastOp'.deleted
            /\ ~lastOp'.raised
            /\ lastOp'.rm_failed = {}
            /\ UNCHANGED <<file_map, indices, pdfs, snap, meta_file>>]_vars

\* delete_pdf of an unregistered filename whose file is in PDF_DIR (the
\* registry was reset): the call reports not-found and the file stays
C13_Witness ==
    /\ lastOp.op = "delete_pdf"
    /\ ~lastOp.deleted
    /\ lastOp.filename \notin DOMAIN file_map
    /\ lastOp.filename \in DOMAIN pdfs
    /\ lastOp.uid = ""

\* C22: registry / index-map consistency.  After any sequence of completed
\* add_pdfs, add_from_url, delete_pdf and reset calls, every uid that is a
\* key of _indices is the uid of some entry of _file_map, also when a
\* filename is ingested again and receives a new uid.
C22_IndicesRegistered ==
    DOMAIN indices \subseteq RegistryUids

(***************************************************************************)
(* Properties of SpecConc.                                                 *)
(***************************************************************************)
AllDone == \A t \in Threads : thr[t].at = "done"

\* the handler of thread record r run alone, from start to end, in s
Call(r, s) ==
    LET res == CASE r.op = "add_pdfs" -> AddPdfsOp(s.st, r.items, {})
                 [] r.op = "add_from_url" -> AddFromUrlOp(s.st, r.items, {})
                 [] r.op = "delete_pdf" -> DeletePdfOp(s.st, r.filename, {})
                 [] OTHER -> ResetOp(s.st, {})
    IN  [st |-> Start(res.st.file_map, res.st.indices, res.st.pdfs,
                      res.st.snap, res.st.now),
         meta_file |-> IF res.saved_meta THEN SaveMetadata(res.st.file_map)
                       ELSE s.meta_file]

\* the two calls one after the other, `first` first
Serial(first) ==
    LET second == CHOOSE t \in Threads : t /= first
        s0 == [st |-> Start(pre.file_map, pre.indices, pre.pdfs, pre.snap, pre.now),
               meta_file |-> pre.meta_file]
    IN  Call(thr[second], Call(thr[first], s0))

\* what a registry and an index map say, whatever the uids are called
Shape(fm, ix, file) ==
    [registered |-> DOMAIN fm,
     indexed |-> {f \in DOMAIN fm : fm[f].uid \in DOMAIN ix},
     n_indices |-> Cardinality(DOMAIN ix),
     persisted |-> IF file.exists /\ ~JsonLoadRaises(file)
                   THEN DOMAIN json_load(file) ELSE {"<unreadable>"}]

\* C5: when two mutating calls on one CorpusManager run concurrently, then
\* after both have completed the persisted registry equals the in-memory
\* registry, and registry and index map are what the two calls leave when
\* run one after the other in one of the two orders.
C5_MutationsSerialized ==
    AllDone =>
        /\ meta_file = SaveMetadata(file_map)
        /\ \E first \in Threads :
              Shape(file_map, indices, meta_file)
                = Shape(Serial(first).st.file_map, Serial(first).st.indices,
                        Serial(first).meta_file)


(***************************************************************************)
(* Properties of SpecAsk.                                                  *)
(***************************************************************************)
\* C21: concurrent queries need no exclusive access.  When two ask calls
\* run concurrently on one CorpusManager and nothing else runs, each call
\* returns chunks it could have returned alone and builds its answer with
\* the style of its own style argument: no call sees what the other wrote.
C21_ConcurrentAsk ==
    \A t \in Threads :
        (thr[t].op = "ask" /\ thr[t].at = "done") =>
            /\ thr[t].fused \in AskOp(indices, thr[t].top_k)
            /\ thr[t].fused /= <<>> =>
                  thr[t].prefix = StylePrefix(SimpleGenerator(thr[t].style))

(***************************************************************************)
(* Properties of SpecCrash.                                                *)
(***************************************************************************)
\* C6: whatever step the process ends at, the file at META_PATH is absent
\* or holds one complete registry: the next startup never reads a truncated
\* or partly written one, and _load_metadata takes it as it is.
C6_NoTornRegistry ==
    /\ meta_file.exists => ~JsonLoadRaises(meta_file)
    /\ thr[1].at = "load_indices" =>
          file_map = IF meta_file.exists THEN json_load(meta_file) ELSE EmptyMap

\* the process ended inside _save_metadata: the temporary file is cut short,
\* META_PATH still holds the registry saved before, and startup is about to
\* read it
C6_Witness ==
    /\ thr[1].op = "init"
    /\ thr[1].at = "load_meta"
    /\ tmp_file.exists
    /\ ~tmp_file.complete
    /\ meta_file.exists
    /\ json_load(meta_file) /= EmptyMap

\* the constructor has returned
Constructed == thr[1].op = "init" /\ thr[1].at = "done"

\* the entries of registry fm whose source file is on disk
Existing(fm) == {f \in DOMAIN fm : fm[f].pdf_path \in DOMAIN pdfs}

\* C11: startup pruning.  The loop of _load_existing_indices leaves in
\* _file_map exactly the entries of the registry read from META_PATH whose
\* source file exists, and once the constructor has returned every entry of
\* _file_map and of the registry at META_PATH has a uid, a pdf_path and an
\* existing source file: the entries whose source file is gone are in
\* neither.
C11_StartupPruning ==
    /\ [](Constructed =>
            /\ meta_file = SaveMetadata(file_map)
            /\ \A f \in DOMAIN file_map :
                  /\ file_map[f].uid /= ""
                  /\ file_map[f].pdf_path /= ""
                  /\ file_map[f].pdf_path \in DOMAIN pdfs)
    /\ [][(thr[1].at = "load_indices" /\ thr'[1].at /= "load_meta")
            => /\ file_map = LoadMetadata(meta_file)
               /\ file_map' = [f \in Existing(file_map) |-> file_map[f]]]_vars

\* a constructor that pruned, one step before it returns: the registry it
\* read from META_PATH names a file that is gone, _file_map does not, and
\* the registry about to replace the one at META_PATH is _file_map
C11_Witness ==
    /\ thr[1].op = "init"
    /\ thr[1].at = "save_replace"
    /\ tmp_file = SaveMetadata(file_map)
    /\ ~JsonLoadRaises(meta_file)
    /\ \E f \in DOMAIN json_load(meta_file) :
          /\ f \notin DOMAIN pdfs
          /\ f \notin DOMAIN file_map

(***************************************************************************)
(* Properties of SpecQuery.                                                *)
(***************************************************************************)
\* the least whole number c with c * b >= a, for a >= 0 and b > 0
LeastMultiple(a, b) == CHOOSE c \in 0..a : c * b >= a /\ (c - 1) * b < a

\* C14: aggregation budget.  For every top_k >= 1 and every number N of
\* loaded indices, _aggregate_query asks every loaded index exactly once,
\* and asks each for max(3, ceil(3 * top_k / max(1, N))) candidates; with
\* top_k = 7 that is 7 for N = 3 and 3 for N = 10.
C14_AggregationBudget ==
    call.fn = "aggregate" =>
        LET uids == call.args.uids
            n == Len(uids)
            top_k == call.args.top_k
            asked == call.out
            per_index_k == Max(3, LeastMultiple(3 * top_k, Max(1, n)))
        IN  /\ \A u \in 1..n :
                  Cardinality({j \in 1..Len(asked) : asked[j][1] = uids[u]}) = 1
            /\ \A j \in 1..Len(asked) :
                  /\ \E u \in 1..n : asked[j][1] = uids[u]
                  /\ asked[j][2] = per_index_k
            /\ (top_k = 7 /\ n = 3) => \A j \in 1..Len(asked) : asked[j][2] = 7
            /\ (top_k = 7 /\ n = 10) => \A j \in 1..Len(asked) : asked[j][2] = 3

\* the federation query of the example: top_k = 7 over ten loaded indices,
\* each asked once for 3 candidates
C14_Witness ==
    /\ call.fn = "aggregate"
    /\ call.args.top_k = 7
    /\ Len(call.args.uids) = 10
    /\ Len(call.out) = 10
    /\ call.out[1][2] = 3

\* a candidate with its rerank_score added and nothing else changed
WithRerankScore(c, s) ==
    [id |-> c.id, content |-> c.content, score |-> c.score, rerank_score |-> s]

\* C15: for a non-empty pool and top_k >= 0, rerank returns
\* min(top_k, number of candidates) candidates: the first of the pool
\* ordered by rerank score descending, equal rerank scores by fused score
\* descending; each is a candidate of the pool with its id, content and
\* score as they were and rerank_score added.
C15_RerankOrder ==
    (call.fn = "rerank" /\ call.args.candidates /= <<>>) =>
        LET cands == call.args.candidates
            scores == call.args.scores
            out == call.out
            n == Len(cands)
        IN  /\ Len(out) = Min(call.args.top_k, n)
            /\ \A i, j \in 1..Len(out) : i < j =>
                  \/ out[i].rerank_score > out[j].rerank_score
                  \/ /\ out[i].rerank_score = out[j].rerank_score
                     /\ out[i].score >= out[j].score
            /\ \E p \in [1..Len(out) -> 1..n] :
                  /\ \A i, j \in 1..Len(out) : i /= j => p[i] /= p[j]
                  /\ \A i \in 1..Len(out) :
                        out[i] = WithRerankScore(cands[p[i]], scores[p[i]])
                  /\ \A j \in 1..n :
                        (\A i \in 1..Len(out) : p[i] /= j) =>
                            \A i \in 1..Len(out) :
                                \/ out[i].rerank_score > scores[j]
                                \/ /\ out[i].rerank_score = scores[j]
                                   /\ out[i].score >= cands[j].score

\* a rerank of three candidates cut to two, where the cross-encoder scored
\* two candidates alike and the one later in the pool, with the higher fused
\* score, is returned first
C15_Witness ==
    /\ call.fn = "rerank"
    /\ Len(call.args.candidates) = 3
    /\ call.args.top_k = 2
    /\ Len(call.out) = 2
    /\ \E i, j \in 1..3 :
          /\ i < j
          /\ call.args.scores[i] = call.args.scores[j]
          /\ call.args.candidates[i].score < call.args.candidates[j].score
          /\ call.out[1] = WithRerankScore(call.args.candidates[j], call.args.scores[j])
          /\ call.out[2] = WithRerankScore(call.args.candidates[i], call.args.scores[i])

\* the rows of a result list
Rows(list) == {list[j][1] : j \in 1..Len(list)}

\* the position of row i in a result list that holds it
Pos(list, i) == CHOOSE j \in 1..Len(list) : list[j][1] = i

\* what the sparse term of row i is worth: the score divided by the largest
\* score of the sparse list, 0 when that largest score is not positive or
\* the row is not in the list
SparseTerm(bm25, i) ==
    IF i \notin Rows(bm25) THEN Zero
    ELSE LET top == CHOOSE j \in 1..Len(bm25) :
                       \A h \in 1..Len(bm25) : RLe(bm25[h][2], bm25[j][2])
         IN  IF bm25[top][2].num > 0 THEN RDiv(bm25[Pos(bm25, i)][2], bm25[top][2])
             ELSE Zero

DenseTerm(dense, i) ==
    IF i \in Rows(dense) THEN dense[Pos(dense, i)][2] ELSE Zero

\* the fused score of the fusion rule for row i
Fused(dense, bm25, alpha, i) ==
    RAdd(RMul(alpha, DenseTerm(dense, i)),
         RMul(RSub(One, alpha), SparseTerm(bm25, i)))

\* a retrieve or query call that returned, on an index with a sparse result
FusedCall ==
    /\ call.fn \in {"retrieve", "query"}
    /\ ~call.raised
    /\ query_bm25(ci, call.args.bm, call.args.top_k).out /= <<>>

\* C16: retrieve returns its rows by fused score descending, and rows of
\* equal fused score by row index ascending: of two returned rows with the
\* same fused score the smaller row index comes first, and a row left out
\* at the cut-off k has no fused score equal to that of a returned row with
\* a larger row index.
C16_TiesByRowIndex ==
    FusedCall =>
        LET out == call.out
            dense == query_dense(ci, call.args.nn, call.args.top_k).out
            bm25 == query_bm25(ci, call.args.bm, call.args.top_k).out
            union == Rows(dense) \cup Rows(bm25)
        IN  /\ \A i, j \in 1..Len(out) : i < j =>
                  \/ RLt(out[j][2], out[i][2])
                  \/ REq(out[i][2], out[j][2]) /\ out[i][1] < out[j][1]
            /\ \A left \in union \ Rows(out) : \A i \in 1..Len(out) :
                  REq(out[i][2], Fused(dense, bm25, call.args.alpha, left))
                      => out[i][1] < left

\* the rows of a result list, in its order
RowSeq(list) == [j \in 1..Len(list) |-> list[j][1]]

\* rows i and j are both in `list`, i before j
Before(list, i, j) ==
    /\ i \in Rows(list)
    /\ j \in Rows(list)
    /\ Pos(list, i) < Pos(list, j)

\* a retrieve call that returned, on an index with the sparse capability
SparseCall == call.fn = "retrieve" /\ ~call.raised /\ ~ci.bm25.none

\* C17 as claimed: with the sparse capability present, for alpha = 1.0 the
\* ranking retrieve returns is the ranking of query_dense, and for
\* alpha = 0.0 it is the ranking of query_bm25, for every query and k.
C17_FusionMonotonicity ==
    SparseCall =>
        LET dense == query_dense(ci, call.args.nn, call.args.top_k).out
            bm25 == query_bm25(ci, call.args.bm, call.args.top_k).out
        IN  /\ call.args.alpha = One => RowSeq(call.out) = RowSeq(dense)
            /\ call.args.alpha = Zero => RowSeq(call.out) = RowSeq(bm25)

\* C17 amended: with the sparse capability present,
\* for alpha = 1.0 the rows retrieve returns that are in the dense list come
\* in the order of the dense list, and the ranking is the dense ranking
\* whenever no similarity of the dense list is negative;
\* for alpha = 0.0 the rows retrieve returns that are in the sparse list come
\* by falling sparse score when the largest sparse score is positive, and
\* the ranking is the sparse ranking whenever the scores of the sparse list
\* are positive and pairwise different.
C17_FusionOnCommonRows ==
    SparseCall =>
        LET out == call.out
            dense == query_dense(ci, call.args.nn, call.args.top_k).out
            bm25 == query_bm25(ci, call.args.bm, call.args.top_k).out
        IN  /\ call.args.alpha = One =>
                  /\ \A i, j \in Rows(out) \cap Rows(dense) :
                        Before(out, i, j) <=> Before(dense, i, j)
                  /\ (\A j \in 1..Len(dense) : dense[j][2].num >= 0)
                        => RowSeq(out) = RowSeq(dense)
            /\ call.args.alpha = Zero =>
                  /\ \A i, j \in Rows(out) \cap Rows(bm25) :
                        (Before(out, i, j) /\ MaxScore(bm25).num > 0)
                            => RLe(bm25[Pos(bm25, j)][2], bm25[Pos(bm25, i)][2])
                  /\ (/\ \A j \in 1..Len(bm25) : bm25[j][2].num > 0
                      /\ \A i, j \in 1..Len(bm25) :
                            i /= j => ~REq(bm25[i][2], bm25[j][2]))
                        => RowSeq(out) = RowSeq(bm25)

\* retrieve with alpha = 1.0 on an index with the sparse capability: a row
\* found only by BM25 ties at 0 with a dense neighbour of similarity 0, and
\* the two rows returned are the dense ranking
C17_Witness ==
    /\ SparseCall
    /\ call.args.alpha = One
    /\ Len(call.out) = 2
    /\ LET dense == query_dense(ci, call.args.nn, call.args.top_k).out
           bm25 == query_bm25(ci, call.args.bm, call.args.top_k).out
       IN  /\ Rows(bm25) \ Rows(dense) /= {}
           /\ \E j \in 1..Len(dense) : dense[j][2].num = 0
           /\ RowSeq(call.out) = RowSeq(dense)

\* C18: fusion rule.  When the sparse result is not empty, every row
\* retrieve returns is a row of the dense or of the sparse list, with the
\* score alpha * similarity (0 for a row not in the dense list) plus
\* (1 - alpha) * score / largest score (0 for a row not in the sparse list,
\* and 0 for every row when the largest score is not positive); at most k
\* rows are returned, a row is left out only when k are returned, and no
\* returned row has a lower score than a row left out.  When the sparse
\* result is empty, retrieve returns what query_dense returns.
C18_FusionRule ==
    (call.fn = "retrieve" /\ ~call.raised) =>
        LET out == call.out
            top_k == call.args.top_k
            alpha == call.args.alpha
            dense == query_dense(ci, call.args.nn, top_k).out
            bm25 == query_bm25(ci, call.args.bm, top_k).out
            union == Rows(dense) \cup Rows(bm25)
        IN  IF bm25 = <<>> THEN out = dense
            ELSE /\ Len(out) <= top_k
                 /\ Rows(out) \subseteq union
                 /\ \A i, j \in 1..Len(out) : i /= j => out[i][1] /= out[j][1]
                 /\ \A j \in 1..Len(out) :
                       REq(out[j][2], Fused(dense, bm25, alpha, out[j][1]))
                 /\ union \ Rows(out) /= {} => Len(out) = top_k
                 /\ \A left \in union \ Rows(out) : \A j \in 1..Len(out) :
                       RLe(Fused(dense, bm25, alpha, left), out[j][2])

\* a fusion with the default weight where one row is only in the dense
\* list, one only in the sparse list, the largest sparse score is 2, and a
\* row of the union is left out
C18_Witness ==
    /\ call.fn = "retrieve"
    /\ ~call.raised
    /\ call.args.alpha = DefaultAlpha
    /\ LET dense == query_dense(ci, call.args.nn, call.args.top_k).out
           bm25 == query_bm25(ci, call.args.bm, call.args.top_k).out
       IN  /\ bm25 /= <<>>
           /\ Rows(dense) \ Rows(bm25) /= {}
           /\ Rows(bm25) \ Rows(dense) /= {}
           /\ MaxScore(bm25) = R(2, 1)
           /\ (Rows(dense) \cup Rows(bm25)) \ Rows(call.out) /= {}
           /\ Len(call.out) = call.args.top_k

QueryFns == {"query_dense", "query_bm25", "retrieve", "query"}

\* C19: every query operation on a ChunkIndex that was neither built nor
\* loaded raises: query_dense, query_bm25, retrieve and query.
C19_NotBuiltRaises ==
    (call.fn \in QueryFns /\ ~Built(ci)) => call.raised

\* a load that returned, of the directory a built index was saved to; ci is
\* the loaded index, call.args.orig the one that was saved
RoundTrip == call.fn = "load" /\ ~call.raised /\ Built(call.args.orig)

Fields(m) == <<m.paper_id, m.page, m.type, m.content>>

\* C23: the content-address is injective on its fields, hash collisions
\* aside.  Two chunks that differ in at least one of paper_id, page, type
\* and content feed different strings to the hash in compute_id, so equal
\* ids come only from equal fields (paper_id "a1" page 2 and paper_id "a"
\* page 12 do not get the same id).
C23_IdInjective ==
    call.fn = "compute_id" =>
        \A i, j \in 1..Len(call.out) :
            call.out[i].id = call.out[j].id
                => Fields(call.out[i]) = Fields(call.out[j])

\* sliding_window_chunks runs; it is at its return statement
Chunking == window.at \in {"while", "return"}
Chunked == window.at = "return"

\* s occurs in chunk as a run of consecutive characters
Contains(chunk, s) ==
    \E k \in 0..(Len(chunk) - Len(s)) : SubSeq(chunk, k + 1, k + Len(s)) = s

\* C24: sliding_window_chunks terminates for every sentence list, every
\* max_chars >= 0 and every overlap_sentences >= 0: the window start grows
\* in every iteration and the call reaches its return, with the chunks the
\* function yields.  No chunk is longer than max_chars characters, and
\* every sentence of at most max_chars characters is found whole in some
\* chunk.
C24_ChunkingTerminates ==
    /\ [](Chunking =>
            \A c \in 1..Len(window.chunks) :
                Len(window.chunks[c]) <= window.max_chars)
    /\ [](Chunked =>
            /\ window.chunks =
                 sliding_window_chunks(window.sentences, window.max_chars,
                                       window.overlap_sentences)
            /\ \A k \in 1..Len(window.sentences) :
                 Len(window.sentences[k]) <= window.max_chars
                   => \E c \in 1..Len(window.chunks) :
                         Contains(window.chunks[c], window.sentences[k]))
    /\ [][(window.at = "while" /\ window'.at = "while")
             => window'.start > window.start]_vars
    /\ (window.at = "while" ~> Chunked)

\* a call that returned three chunks: the second window began one sentence
\* back and repeats the second sentence
C24_Witness ==
    /\ Chunked
    /\ window.sentences = <<"a", "a", "def">>
    /\ window.max_chars = 4 /\ window.overlap_sentences = 1
    /\ window.chunks = <<"a a", "a", "def">>

====
